---- MODULE Spec2Model ----
(***************************************************************************)
(* A model of CNTK's TrainingSession (Source/CNTKv2LibraryDll/             *)
(* TrainingSession.cpp): the SessionConfig builder, the construction of    *)
(* the periodic actions, the main loop of Train with its post-loop         *)
(* catch-up and final checkpoint, cross validation, the sharded minibatch  *)
(* fetch, and checkpoint save / discovery / restore.                       *)
(*                                                                         *)
(* Strings (file names, paths) are sequences of one-character strings, so  *)
(* that find_last_of, substr, starts_with, isNumber, strtol and to_wstring *)
(* are computed character by character as the code computes them.          *)
(***************************************************************************)
EXTENDS Integers, Sequences, FiniteSets, TLC

(***************************************************************************)
(* Bounds of the model.                                                    *)
(***************************************************************************)
\* Largest maxNumTrainingSamples a configuration of the model asks for.
MaxSamples == 5
\* Largest minibatch size a schedule of the model holds.
MaxMb == 3
\* Largest number of builder calls made on one SessionConfig.
MaxCalls == 4
\* Largest number of iterations in which a distributed trainer keeps the loop
\* alive although the local minibatch is empty.
MaxIdle == 1
\* Largest number of samples the cross-validation source holds.
MaxCvLen == 3

(***************************************************************************)
(* Program constants.                                                      *)
(***************************************************************************)
\* std::numeric_limits<size_t>::max(); the model keeps it as the largest
\* value of its integers, it is only ever compared and divided by.
SizeMax == 2147483647

Min(a, b) == IF a < b THEN a ELSE b

Max(a, b) == IF a > b THEN a ELSE b

(***************************************************************************)
(* Strings.                                                                *)
(***************************************************************************)
Digits == <<"0", "1", "2", "3", "4", "5", "6", "7", "8", "9">>

\* isdigit(c)
isdigit(c) == \E i \in 1..10 : Digits[i] = c

DigitValue(c) == (CHOOSE i \in 1..10 : Digits[i] = c) - 1

\* The mutant of isNumber: the empty string counts as a number.
isNumberEmptyOk(s) == \A i \in 1..Len(s) : isdigit(s[i])

\* isNumber: non-empty and no character that is not a digit.
isNumber(s) == s # <<>> /\ \A i \in 1..Len(s) : isdigit(s[i])

\* std::to_wstring(size_t): the decimal digits, most significant first.
RECURSIVE to_wstring(_)
to_wstring(n) ==
    IF n < 10 THEN <<Digits[n + 1]>>
    ELSE to_wstring(n \div 10) \o <<Digits[(n % 10) + 1]>>

\* strtol(s, &tmp, 10) on a string of digits only (isNumber holds where the
\* code calls it, so the whole string is consumed and tmp is its end).
RECURSIVE strtol(_)
strtol(s) ==
    IF s = <<>> THEN 0
    ELSE strtol(SubSeq(s, 1, Len(s) - 1)) * 10 + DigitValue(s[Len(s)])

\* boost::starts_with(f, prefix)
starts_with(f, prefix) ==
    /\ Len(f) >= Len(prefix)
    /\ SubSeq(f, 1, Len(prefix)) = prefix

\* std::wstring::substr(pos): the characters from 0-based position pos on.
substr(s, pos) == SubSeq(s, pos + 1, Len(s))

\* std::wstring::substr(0, n): the first n characters.
substr0(s, n) == SubSeq(s, 1, n)

IsSeparator(c) == c = "/" \/ c = "\\"

\* std::wstring::find_last_of(L"\\/"): the 0-based position of the last
\* separator, or -1 for wstring::npos.
find_last_of(s) ==
    IF \E i \in 1..Len(s) : IsSeparator(s[i])
    THEN (CHOOSE i \in 1..Len(s) :
              /\ IsSeparator(s[i])
              /\ \A j \in (i + 1)..Len(s) : ~IsSeparator(s[j])) - 1
    ELSE -1

CkpExt == <<".", "c", "k", "p">>

(***************************************************************************)
(* MinibatchSizeSchedule: a size for every sample offset.  The schedules   *)
(* of the model hold one size up to an offset and another from it on.      *)
(***************************************************************************)
Schedule(first, switchAt, rest) ==
    [first |-> first, switchAt |-> switchAt, rest |-> rest]

\* MinibatchSizeSchedule::operator[](sampleOffset)
ScheduleAt(s, offset) == IF offset < s.switchAt THEN s.first ELSE s.rest

ConstantSchedule(size) == Schedule(size, 0, size)

(***************************************************************************)
(* DeviceDescriptor.                                                       *)
(***************************************************************************)
\* DeviceDescriptor::CPUDevice()
CPUDevice == [type |-> "CPU", id |-> 0]

\* DeviceDescriptor::GPUDevice(id)
GPUDevice(id) == [type |-> "GPU", id |-> id]

\* The placeholder of type DeviceKind::AUTO.
AutoDevice == [type |-> "AUTO", id |-> 0]

\* The process-wide selection: the default device and whether it is frozen.
Selection(device, frozen) == [device |-> device, frozen |-> frozen]

\* What a call on DeviceDescriptor leaves: the selection, the device it
\* returns (the placeholder when it returns none) and the exception raised.
Selected(selection, result, err) == [selection |-> selection, result |-> result, err |-> err]

\* DeviceDescriptor::DefaultDevice()
DefaultDevice(selection) == Selected(selection, selection.device, "none")

\* A variant of SetDefaultDevice that takes the new device also after the
\* default device has been used.
SetDefaultDeviceAnyTime(selection, newDefaultDevice) ==
    Selected(Selection(newDefaultDevice, selection.frozen), AutoDevice, "none")

\* DeviceDescriptor::SetDefaultDevice(newDefaultDevice): refused once the
\* default device has been used, unless it is the device selected.
SetDefaultDevice(selection, newDefaultDevice) ==
    IF selection.frozen /\ newDefaultDevice # selection.device
    THEN Selected(selection, AutoDevice, "RuntimeError")
    ELSE Selected(Selection(newDefaultDevice, selection.frozen), AutoDevice, "none")

\* DeviceDescriptor::UseDefaultDevice(): a physical device (best, one of
\* AllDevices()) takes the place of the placeholder, and the selection is
\* frozen.
UseDefaultDevice(selection, best) ==
    LET device == IF selection.device = AutoDevice THEN best ELSE selection.device
    IN  Selected(Selection(device, TRUE), device, "none")

(***************************************************************************)
(* SessionConfig.                                                          *)
(***************************************************************************)
NullPtr == "null"

\* The result of a constructor or builder call: the object as the call
\* leaves it, and the exception it raised ("none" when it returned).
Outcome(c, e) == [cfg |-> c, err |-> e]

\* A variant of SessionConfig's constructor that accepts an empty mapping.
SessionConfigAnyMapping(trainingSource, minibatchSizeSchedule, inputVarToStream, maxNumTrainingSamples, indet) ==
    LET c == [m_withCheckpointing |-> FALSE,
              m_withCrossValidation |-> FALSE,
              m_withProgressPrinting |-> FALSE,
              m_mbSource |-> trainingSource,
              m_mbSizeSchedule |-> minibatchSizeSchedule,
              m_inputVarToStream |-> inputVarToStream,
              m_maxNumTrainingSamples |-> maxNumTrainingSamples,
              m_crossValidationSchedule |-> minibatchSizeSchedule,
              m_checkPointFileName |-> <<>>,
              m_crossValidationSource |-> NullPtr,
              m_progressWriters |-> {},
              m_checkpointFrequencyInSamples |-> indet.frequency,
              m_restoreFromCheckpointIfExists |-> indet.flag,
              m_preserveAllCheckpoints |-> indet.flag,
              m_crossValidationFrequencyInSamples |-> indet.frequency,
              m_progressFrequencyInSamples |-> indet.frequency]
    IN  IF trainingSource = NullPtr THEN Outcome(c, "InvalidArgument")
        ELSE IF maxNumTrainingSamples = 0 THEN Outcome(c, "InvalidArgument")
        ELSE Outcome(c, "none")

\* SessionConfig::SessionConfig.  The members the constructor's initializer
\* list does not name hold what indet gives them.
SessionConfig(trainingSource, minibatchSizeSchedule, inputVarToStream, maxNumTrainingSamples, indet) ==
    LET c == [m_withCheckpointing |-> FALSE,
              m_withCrossValidation |-> FALSE,
              m_withProgressPrinting |-> FALSE,
              m_mbSource |-> trainingSource,
              m_mbSizeSchedule |-> minibatchSizeSchedule,
              m_inputVarToStream |-> inputVarToStream,
              m_maxNumTrainingSamples |-> maxNumTrainingSamples,
              m_crossValidationSchedule |-> minibatchSizeSchedule,
              m_checkPointFileName |-> <<>>,
              m_crossValidationSource |-> NullPtr,
              m_progressWriters |-> {},
              m_checkpointFrequencyInSamples |-> indet.frequency,
              m_restoreFromCheckpointIfExists |-> indet.flag,
              m_preserveAllCheckpoints |-> indet.flag,
              m_crossValidationFrequencyInSamples |-> indet.frequency,
              m_progressFrequencyInSamples |-> indet.frequency]
    IN  IF trainingSource = NullPtr THEN Outcome(c, "InvalidArgument")
        ELSE IF maxNumTrainingSamples = 0 THEN Outcome(c, "InvalidArgument")
        ELSE IF inputVarToStream = {} THEN Outcome(c, "InvalidArgument")
        ELSE Outcome(c, "none")

\* The mutant of Checkpointing: the already-specified check is missing.
CheckpointingNoGuard(c, checkPointFileName, checkpointFrequencyInSamples, restoreFromCheckpointIfExists, preserveAllCheckpoints) ==
    Outcome([c EXCEPT !.m_checkPointFileName = checkPointFileName,
                      !.m_preserveAllCheckpoints = preserveAllCheckpoints,
                      !.m_restoreFromCheckpointIfExists =
                          restoreFromCheckpointIfExists,
                      !.m_checkpointFrequencyInSamples =
                          checkpointFrequencyInSamples,
                      !.m_withCheckpointing = TRUE], "none")

\* A variant of Checkpointing that refuses every nonzero frequency with an
\* empty file name, the largest size_t included.
CheckpointingEveryNonZero(c, checkPointFileName, checkpointFrequencyInSamples, restoreFromCheckpointIfExists, preserveAllCheckpoints) ==
    IF c.m_withCheckpointing THEN Outcome(c, "RuntimeError")
    ELSE
      LET named == [c EXCEPT !.m_checkPointFileName = checkPointFileName]
      IN  IF checkPointFileName = <<>> /\ (checkpointFrequencyInSamples # 0 \/ preserveAllCheckpoints)
          THEN Outcome(named, "InvalidArgument")
          ELSE Outcome([named EXCEPT
                          !.m_preserveAllCheckpoints = preserveAllCheckpoints,
                          !.m_restoreFromCheckpointIfExists =
                              restoreFromCheckpointIfExists,
                          !.m_checkpointFrequencyInSamples =
                              checkpointFrequencyInSamples,
                          !.m_withCheckpointing = TRUE], "none")

\* SessionConfig::Checkpointing.  The file name is stored before the
\* arguments are validated.
Checkpointing(c, checkPointFileName, checkpointFrequencyInSamples, restoreFromCheckpointIfExists, preserveAllCheckpoints) ==
    IF c.m_withCheckpointing THEN Outcome(c, "RuntimeError")
    ELSE
      LET named == [c EXCEPT !.m_checkPointFileName = checkPointFileName]
          frequency == IF checkPointFileName = <<>> THEN 0
                       ELSE checkpointFrequencyInSamples
      IN  IF /\ checkPointFileName = <<>>
             /\ checkpointFrequencyInSamples # 0
             /\ checkpointFrequencyInSamples # SizeMax
          THEN Outcome(named, "InvalidArgument")
          ELSE IF checkPointFileName = <<>> /\ preserveAllCheckpoints
          THEN Outcome(named, "InvalidArgument")
          ELSE Outcome([named EXCEPT
                          !.m_preserveAllCheckpoints = preserveAllCheckpoints,
                          !.m_restoreFromCheckpointIfExists =
                              restoreFromCheckpointIfExists,
                          !.m_checkpointFrequencyInSamples = frequency,
                          !.m_withCheckpointing = TRUE], "none")

\* SessionConfig::CrossValidation
CrossValidation(c, crossValidationSource, crossValidationSchedule, crossValidationFrequencyInSamples) ==
    IF c.m_withCrossValidation THEN Outcome(c, "RuntimeError")
    ELSE Outcome([c EXCEPT
                    !.m_crossValidationSource = crossValidationSource,
                    !.m_crossValidationSchedule = crossValidationSchedule,
                    !.m_crossValidationFrequencyInSamples =
                        crossValidationFrequencyInSamples,
                    !.m_withCrossValidation = TRUE], "none")

\* SessionConfig::ProgressPrinting
ProgressPrinting(c, progressWriters, progressFrequency) ==
    IF c.m_withProgressPrinting THEN Outcome(c, "RuntimeError")
    ELSE Outcome([c EXCEPT
                    !.m_progressFrequencyInSamples = progressFrequency,
                    !.m_progressWriters = progressWriters,
                    !.m_withProgressPrinting = TRUE], "none")

(***************************************************************************)
(* The collaborators: the trainer, the minibatch sources and the file      *)
(* system.  Their code is outside TrainingSession.cpp; they are modelled   *)
(* from the interface the session uses.                                    *)
(***************************************************************************)
\* A learner of the trainer: distributed or not; a distributed one reports
\* its warm-up (ParallelizationAfter) and its communicator's rank and size.
LocalLearner == [distributed |-> FALSE, parallelizationAfter |-> 0, globalRank |-> 0, workers |-> 1]

DistributedLearner(after, rank, workers) == [distributed |-> TRUE, parallelizationAfter |-> after, globalRank |-> rank, workers |-> workers]

\* The trainer trains distributed when one of its learners is distributed.
IsDistributed(learners) == \E i \in 1..Len(learners) : learners[i].distributed

\* Trainer::TrainMinibatch on a minibatch of n samples: the set of outcomes
\* [trainer, result].  A local trainer counts the samples it is given and
\* returns false exactly on an empty minibatch.  A distributed one also counts
\* the samples of the other workers, and on an empty local minibatch returns
\* true while other workers still have data (at most MaxIdle times).
TrainMinibatch(t, n) ==
    IF ~t.distributed
    THEN {[trainer |-> [t EXCEPT !.total = t.total + n], result |-> (n > 0)]}
    ELSE IF n > 0
    THEN {[trainer |-> [t EXCEPT !.total = t.total + n + others], result |-> TRUE] : others \in {0, n}}
    ELSE {[trainer |-> t, result |-> FALSE]}
         \cup {[trainer |-> [t EXCEPT !.total = t.total + others, !.idle = t.idle + 1], result |-> TRUE] : others \in IF t.idle < MaxIdle THEN {0, 1} ELSE {}}

\* MinibatchSource::GetNextMinibatch(0, size, workers, rank): the numbers of
\* samples the source may hand out.  A "full" source hands out what is asked
\* for while it has it; a "short" one may hand out fewer (whole sequences, a
\* shard); both hand out nothing once they are exhausted.
SourceReturns(src, size) ==
    LET avail == Max(0, Min(size, src.len - src.pos))
    IN  IF src.kind = "full" \/ avail = 0 THEN {avail} ELSE 1..avail

\* fexists(path)
fexists(files, path) == path \in DOMAIN files

\* msra::files::get_all_files_from_directory(parent): the names of the files
\* directly in the directory.
get_all_files_from_directory(files, parent) ==
    LET prefix == parent \o <<"/">>
    IN  {substr(p, Len(prefix)) : p \in {q \in DOMAIN files :
            /\ starts_with(q, prefix)
            /\ Len(q) > Len(prefix)
            /\ \A i \in (Len(prefix) + 1)..Len(q) : ~IsSeparator(q[i])}}

\* Trainer::SaveCheckpoint(path, externalState): the model file at path and
\* the trainer's state, with the external state, beside it at path.ckp.
TrainerSaveCheckpoint(files, path, t, externalState) ==
    LET content == [total |-> t.total, externalState |-> externalState]
    IN  [p \in DOMAIN files \cup {path, path \o CkpExt} |->
            IF p \in {path, path \o CkpExt} THEN content ELSE files[p]]

(***************************************************************************)
(* TrainingSession.                                                        *)
(***************************************************************************)
s_trainingMinibatchSource == "TrainingMinibatchSource"

PeriodicAction(kind, frequency) ==
    [kind |-> kind, frequency |-> frequency, currentIndex |-> 0, sampleCountWhenLastCalled |-> 0]

\* The loop over the learners: the largest warm-up, and the rank and the
\* number of workers of the last distributed learner.
RECURSIVE WarmUp(_, _)
WarmUp(learners, acc) ==
    IF learners = <<>> THEN acc
    ELSE LET l == Head(learners)
         IN  WarmUp(Tail(learners),
                    IF l.distributed
                    THEN [m_parallelAfterSamples |-> Max(acc.m_parallelAfterSamples, l.parallelizationAfter),
                          m_workerRank |-> l.globalRank,
                          m_numberOfWorkers |-> l.workers]
                    ELSE acc)

\* The mutant of RequiredActions: cross validation is queued before the
\* checkpoint.
RequiredActionsCvFirst(c) ==
    (IF c.m_withCrossValidation /\ c.m_crossValidationFrequencyInSamples # 0
     THEN <<PeriodicAction("crossValidation", c.m_crossValidationFrequencyInSamples)>> ELSE <<>>)
    \o (IF c.m_withCheckpointing /\ c.m_checkpointFrequencyInSamples # 0
        THEN <<PeriodicAction("checkpoint", c.m_checkpointFrequencyInSamples)>> ELSE <<>>)
    \o (IF c.m_withProgressPrinting /\ c.m_progressFrequencyInSamples # 0
        THEN <<PeriodicAction("progress", c.m_progressFrequencyInSamples)>> ELSE <<>>)

\* "Fill-in required actions": checkpoint, cross validation, progress, each
\* only when configured with a frequency other than zero.
RequiredActions(c) ==
    (IF c.m_withCheckpointing /\ c.m_checkpointFrequencyInSamples # 0
     THEN <<PeriodicAction("checkpoint", c.m_checkpointFrequencyInSamples)>> ELSE <<>>)
    \o (IF c.m_withCrossValidation /\ c.m_crossValidationFrequencyInSamples # 0
        THEN <<PeriodicAction("crossValidation", c.m_crossValidationFrequencyInSamples)>> ELSE <<>>)
    \o (IF c.m_withProgressPrinting /\ c.m_progressFrequencyInSamples # 0
        THEN <<PeriodicAction("progress", c.m_progressFrequencyInSamples)>> ELSE <<>>)

\* TrainingSession::TrainingSession(trainer, config), for a trainer that is
\* not null: the members of the new session.
TrainingSession(learners, c) ==
    LET w == WarmUp(learners, [m_parallelAfterSamples |-> 0, m_workerRank |-> 0, m_numberOfWorkers |-> 1])
    IN  [m_parallelAfterSamples |-> w.m_parallelAfterSamples,
         m_workerRank |-> w.m_workerRank,
         m_numberOfWorkers |-> w.m_numberOfWorkers,
         m_actions |-> RequiredActions(c)]

\* A fetch that does not reach the source.
NoRequest == [contacted |-> FALSE, size |-> 0, numberOfWorkers |-> 0, workerRank |-> 0]

\* GetMinibatchSize(): the scheduled size at the trainer's sample count.
GetMinibatchSize(c, t) == ScheduleAt(c.m_mbSizeSchedule, t.total)

\* TrainingSession::GetNextMinibatch, the source answering with n samples:
\* the minibatch, the source after the call, and the request the source
\* saw (not contacted when the size is 0).
GetNextMinibatch(src, mbSize, workerRank, numberOfWorkers, n) ==
    IF mbSize = 0
    THEN [minibatch |-> 0, source |-> src, request |-> NoRequest]
    ELSE [minibatch |-> n,
          source |-> [src EXCEPT !.pos = src.pos + n],
          request |-> [contacted |-> TRUE, size |-> mbSize, numberOfWorkers |-> numberOfWorkers, workerRank |-> workerRank]]

\* What the source may answer to a fetch of mbSize samples.
Answers(src, mbSize) == IF mbSize = 0 THEN {0} ELSE SourceReturns(src, mbSize)

\* The mutant of GetTrainingMinibatch: the warm-up override is missing.
GetTrainingMinibatchNoWarmUp(s, c, t, src, maxMbSize, n) ==
    GetNextMinibatch(src, Min(GetMinibatchSize(c, t), maxMbSize), s.m_workerRank, s.m_numberOfWorkers, n)

\* TrainingSession::GetTrainingMinibatch
GetTrainingMinibatch(s, c, t, src, maxMbSize, n) ==
    LET warmUp == s.m_parallelAfterSamples > t.total
        numberOfWorkers == IF warmUp THEN 1 ELSE s.m_numberOfWorkers
        workerRank == IF warmUp THEN 0 ELSE s.m_workerRank
        mbSize == Min(GetMinibatchSize(c, t), maxMbSize)
    IN  GetNextMinibatch(src, mbSize, workerRank, numberOfWorkers, n)

\* TrainingSession::GetCrossValidationMinibatch
GetCrossValidationMinibatch(src, maxMbSize, n) == GetNextMinibatch(src, maxMbSize, 0, 1, n)

\* Trainer::TestMinibatch(minibatch, device, sampleCount) times sampleCount:
\* the summed error of the n samples after position pos.
RECURSIVE TestMinibatch(_, _, _)
TestMinibatch(data, pos, n) ==
    IF n = 0 THEN 0 ELSE data[pos + n] + TestMinibatch(data, pos, n - 1)

\* The loop of CrossValidate.  sampleCount is the size of the last minibatch
\* tested (0 before the first): it is what indexes the schedule.
RECURSIVE CrossValidationLoop(_, _, _, _)
CrossValidationLoop(c, src, sampleCount, acc) ==
    LET size == ScheduleAt(c.m_crossValidationSchedule, sampleCount)
        n == CHOOSE k \in Answers(src, size) : TRUE
        got == GetCrossValidationMinibatch(src, size, n)
    IN  IF got.minibatch = 0
        THEN [source |-> got.source, acc |-> [acc EXCEPT !.requests = acc.requests \cup {got.request}]]
        ELSE CrossValidationLoop(c, got.source, got.minibatch,
                 [accumulatedError |-> acc.accumulatedError + TestMinibatch(src.data, src.pos, got.minibatch),
                  totalNumberOfSamples |-> acc.totalNumberOfSamples + got.minibatch,
                  numberOfMinibatches |-> acc.numberOfMinibatches + 1,
                  visited |-> Append(acc.visited, <<src.pos, got.minibatch>>),
                  requests |-> acc.requests \cup {got.request}])

\* accumulatedError / totalNumberOfSamples in double arithmetic, kept as the
\* fraction; a denominator of 0 is the NaN of 0.0 / 0.
Quotient(accumulatedError, totalNumberOfSamples) == <<accumulatedError, totalNumberOfSamples>>

\* What CrossValidate hands to OnCrossValidationEnd, and the source as it
\* leaves it.
CrossValidationResult(src, averageError, acc) ==
    [source |-> src,
     averageError |-> averageError,
     totalNumberOfSamples |-> acc.totalNumberOfSamples,
     numberOfMinibatches |-> acc.numberOfMinibatches,
     visited |-> acc.visited,
     requests |-> acc.requests]

NoValidation == [accumulatedError |-> 0, totalNumberOfSamples |-> 0, numberOfMinibatches |-> 0, visited |-> <<>>, requests |-> {}]

\* The mutant of CrossValidate: the source is not put back to the snapshot.
CrossValidateNoRestore(c, src) ==
    IF c.m_crossValidationSource # NullPtr
    THEN LET run == CrossValidationLoop(c, src, 0, NoValidation)
         IN  CrossValidationResult(run.source, Quotient(run.acc.accumulatedError, run.acc.totalNumberOfSamples), run.acc)
    ELSE CrossValidationResult(src, <<0, 1>>, NoValidation)

\* TrainingSession::CrossValidate up to the call of OnCrossValidationEnd,
\* whose result is the handler's.
CrossValidate(c, src) ==
    IF c.m_crossValidationSource # NullPtr
    THEN LET checkpoint == src.pos
             run == CrossValidationLoop(c, src, 0, NoValidation)
         IN  CrossValidationResult([run.source EXCEPT !.pos = checkpoint],
                                   Quotient(run.acc.accumulatedError, run.acc.totalNumberOfSamples), run.acc)
    ELSE CrossValidationResult(src, <<0, 1>>, NoValidation)

\* A variant of CheckpointFile that never appends the period index.
CheckpointFileBare(c, currentIndex) == c.m_checkPointFileName

\* The file SaveCheckpoint writes for a period.
CheckpointFile(c, currentIndex) ==
    c.m_checkPointFileName \o (IF c.m_preserveAllCheckpoints THEN to_wstring(currentIndex) ELSE <<>>)

\* The state handed to the trainer with a checkpoint: the cursor of the
\* training source under s_trainingMinibatchSource (lines 376-377, 388-389).
ExternalState(src) == [TrainingMinibatchSource |-> src.pos]

\* TrainingSession::SaveCheckpoint: the calls it makes, in their order.
SaveCheckpointCalls(c, src, currentIndex) ==
    << [callee |-> "OnCheckpointStart", index |-> currentIndex],
       [callee |-> "Trainer::SaveCheckpoint", file |-> CheckpointFile(c, currentIndex), externalState |-> ExternalState(src)],
       [callee |-> "OnCheckpointEnd", index |-> currentIndex] >>

\* TrainingSession::SaveCheckpoint: the files after the save.
SaveCheckpoint(c, files, t, src, currentIndex) ==
    LET save == SaveCheckpointCalls(c, src, currentIndex)[2]
    IN  TrainerSaveCheckpoint(files, save.file, t, save.externalState)

\* The mutant of SaveFinalCheckpoint: nothing is saved.
SaveFinalCheckpointNothing(c, files, t, src) == files

\* TrainingSession::SaveFinalCheckpoint
SaveFinalCheckpoint(c, files, t, src) ==
    TrainerSaveCheckpoint(files, c.m_checkPointFileName, t, ExternalState(src))

\* The split of the checkpoint path at its last separator.
SplitPath(checkpoint) ==
    LET pos == find_last_of(checkpoint)
    IN  IF pos = -1
        THEN [parent |-> <<".", ".">>, fileName |-> checkpoint]
        ELSE [parent |-> substr0(checkpoint, pos), fileName |-> substr(checkpoint, pos)]

\* The directory entries the scan accepts: the file name, a numeric suffix,
\* and a sibling with the .ckp extension.
Candidates(files, parent, fileName) ==
    {f \in get_all_files_from_directory(files, parent) :
        /\ starts_with(f, fileName)
        /\ isNumber(substr(f, Len(fileName)))
        /\ fexists(files, parent \o <<"/">> \o f \o CkpExt)}

\* A variant of RestoreFiles that scans for numbered entries first and takes
\* the file at the configured path only when the scan finds none.
RestoreFilesScanFirst(files, checkpoint) ==
    LET split == SplitPath(checkpoint)
        found == Candidates(files, split.parent, split.fileName)
        value(f) == strtol(substr(f, Len(split.fileName)))
    IN  IF found # {}
        THEN {split.parent \o <<"/">> \o f : f \in {g \in found : \A h \in found : value(h) <= value(g)}}
        ELSE IF fexists(files, checkpoint) THEN {checkpoint} ELSE {<<>>}

\* The files RestoreFromCheckpoint() may pick (<<>> for none).  The scan keeps
\* the first entry with the largest value in the order of the listing, which
\* is the order the file system gives: any of the entries with that value.
RestoreFiles(files, checkpoint) ==
    IF fexists(files, checkpoint) THEN {checkpoint}
    ELSE LET split == SplitPath(checkpoint)
             found == Candidates(files, split.parent, split.fileName)
             value(f) == strtol(substr(f, Len(split.fileName)))
         IN  IF found = {} THEN {<<>>}
             ELSE {split.parent \o <<"/">> \o f : f \in {g \in found : \A h \in found : value(h) <= value(g)}}

\* The mutant of RecalculateActions: the indices are not recalculated.
RecalculateActionsNot(actions, totalNumberOfSamples) == actions

\* A variant of RecalculateActions that sets the index and leaves the
\* sample count of the last call as it was.
RecalculateActionsIndexOnly(actions, totalNumberOfSamples) ==
    [i \in 1..Len(actions) |->
        [actions[i] EXCEPT !.currentIndex = totalNumberOfSamples \div actions[i].frequency]]

\* "Recalculate actions indicies."
RecalculateActions(actions, totalNumberOfSamples) ==
    [i \in 1..Len(actions) |->
        [actions[i] EXCEPT
            !.currentIndex = totalNumberOfSamples \div actions[i].frequency,
            !.sampleCountWhenLastCalled = totalNumberOfSamples - (totalNumberOfSamples % actions[i].frequency)]]

\* TrainingSession::RestoreFromCheckpoint(), the scan having picked
\* restoreFile: the trainer, the training source and the actions after it.
RestoreFromCheckpoint(files, restoreFile, t, src, actions) ==
    IF restoreFile = <<>>
    THEN [trainer |-> t, source |-> src, actions |-> actions]
    ELSE LET restored == [t EXCEPT !.total = files[restoreFile].total]
         IN  [trainer |-> restored,
              source |-> [src EXCEPT !.pos = files[restoreFile].externalState[s_trainingMinibatchSource]],
              actions |-> RecalculateActions(actions, restored.total)]

(***************************************************************************)
(* The state.                                                              *)
(***************************************************************************)
VARIABLES
    pc,                      \* where the program is
    m_config,                \* the SessionConfig
    calls,                   \* the builder calls made on it, with their outcome
    session,                 \* the TrainingSession's members
    trainer,                 \* the trainer: its learners, its sample count
    mbSource,                \* the training source: its cursor, what it holds
    cvSource,                \* the cross-validation source: its cursor, its data
    files,                   \* the file system: path -> content
    shouldTrain,             \* Train's local of that name
    earlyExit,               \* Train's local of that name
    restoredNumberOfSamples, \* Train's local of that name
    minibatch,               \* Train's local of that name: its number of samples
    ai,                      \* the position of Train's loops over m_actions
    run,                     \* the number of the process running Train
    restoredFrom,            \* the file this run restored from (<<>>: none)
    fetches,                 \* the training fetches of this run
    steps,                   \* the TrainMinibatch calls of this run
    fires,                   \* the calls of periodic actions, of every run
    validations,             \* what CrossValidate reported, this run
    saves,                   \* the checkpoints saved, this run
    allDevices,              \* DeviceDescriptor::AllDevices() of the machine
    s_defaultDevice,         \* the process-wide default device
    s_defaultDeviceFrozen    \* whether the default device has been used

vars == <<pc, m_config, calls, session, trainer, mbSource, cvSource, files, shouldTrain, earlyExit, restoredNumberOfSamples, minibatch, ai, run, restoredFrom, fetches, steps, fires, validations, saves, allDevices, s_defaultDevice, s_defaultDeviceFrozen>>

devices == <<allDevices, s_defaultDevice, s_defaultDeviceFrozen>>

trainLocals == <<shouldTrain, earlyExit, restoredNumberOfSamples, minibatch>>

logs == <<fetches, steps, fires, validations, saves>>

(***************************************************************************)
(* Train.                                                                  *)
(***************************************************************************)
\* The mutant of SamplesLeft: the early-exit flag is not looked at.
SamplesLeftNoEarlyExit(c, t, exit) ==
    IF c.m_maxNumTrainingSamples <= t.total THEN 0 ELSE c.m_maxNumTrainingSamples - t.total

\* A variant of SamplesLeft that does not take off the samples seen.
SamplesLeftWhole(c, t, exit) == IF exit THEN 0 ELSE c.m_maxNumTrainingSamples

\* samplesLeft, at the head of an iteration.
SamplesLeft(c, t, exit) ==
    IF exit \/ c.m_maxNumTrainingSamples <= t.total THEN 0
    ELSE c.m_maxNumTrainingSamples - t.total

\* The mutant of Evaluate: an action that crossed several periods in one
\* step advances by one period only, and so is called again for the next.
EvaluateOnePeriod(action, totalNumberOfSamples) ==
    LET index == totalNumberOfSamples \div action.frequency
    IN  [call |-> index # action.currentIndex,
         currentIndex |-> IF index # action.currentIndex THEN action.currentIndex + 1 ELSE action.currentIndex,
         sampleCountWhenLastCalled |-> IF index # action.currentIndex THEN totalNumberOfSamples ELSE action.sampleCountWhenLastCalled]

\* The mutant of Evaluate: the index is not updated after the call.
EvaluateNoUpdate(action, totalNumberOfSamples) ==
    LET index == totalNumberOfSamples \div action.frequency
    IN  [call |-> index # action.currentIndex,
         currentIndex |-> action.currentIndex,
         sampleCountWhenLastCalled |-> action.sampleCountWhenLastCalled]

\* A variant of Evaluate that moves the index and leaves the sample count
\* of the last call as it was.
EvaluateKeepCount(action, totalNumberOfSamples) ==
    LET index == totalNumberOfSamples \div action.frequency
    IN  [call |-> index # action.currentIndex,
         currentIndex |-> IF index # action.currentIndex THEN index ELSE action.currentIndex,
         sampleCountWhenLastCalled |-> action.sampleCountWhenLastCalled]

\* The body of the loop "Peform actions if required" for one action: whether
\* it is called (with action.currentIndex), and its fields afterwards.
Evaluate(action, totalNumberOfSamples) ==
    LET index == totalNumberOfSamples \div action.frequency
    IN  [call |-> index # action.currentIndex,
         currentIndex |-> IF index # action.currentIndex THEN index ELSE action.currentIndex,
         sampleCountWhenLastCalled |-> IF index # action.currentIndex THEN totalNumberOfSamples ELSE action.sampleCountWhenLastCalled]

\* The mutant of PendingAtEnd: the sample count of the last call is ignored.
PendingAtEndAnyPartial(action, totalNumberOfSamples) ==
    totalNumberOfSamples % action.frequency # 0

\* The condition of the loop after the main loop: a partial period that the
\* action has not been called for.
PendingAtEnd(action, totalNumberOfSamples) ==
    /\ totalNumberOfSamples % action.frequency # 0
    /\ totalNumberOfSamples # action.sampleCountWhenLastCalled

\* The mutant of EarlyExitAfter: the flag is reset by an action that wants
\* to continue.
EarlyExitAfterReset(exit, shouldContinue) == ~shouldContinue

\* earlyExit after an action returned shouldContinue.
EarlyExitAfter(exit, shouldContinue) == exit \/ ~shouldContinue

\* The mutant of NextInLoop: the loop over the actions is left as soon as one
\* wants an early exit.
NextInLoopBreak(i, n, exit) == IF i < n /\ ~exit THEN [pc |-> "actions", ai |-> i + 1] ELSE [pc |-> "loop", ai |-> i + 1]

\* A variant of NextInLoop that starts the loop over the actions again
\* after the last one, instead of going back to the loop's condition.
NextInLoopAgain(i, n, exit) == IF i < n THEN [pc |-> "actions", ai |-> i + 1] ELSE [pc |-> "actions", ai |-> 1]

\* Where the main loop goes after the action at position i of n: to the next
\* action, or, past the last one, back to the loop's condition.
NextInLoop(i, n, exit) == IF i < n THEN [pc |-> "actions", ai |-> i + 1] ELSE [pc |-> "loop", ai |-> i + 1]

\* What an action's handler may return: SaveCheckpoint's and
\* ReportProgress's lambdas return true, CrossValidate returns what the
\* OnCrossValidationEnd hook does.
HandlerResults(kind) == IF kind = "crossValidation" THEN BOOLEAN ELSE {TRUE}

\* The call action.action(action.currentIndex, computeDevice), returning
\* result, in the given phase of Train.
Perform(action, phase, result) ==
    LET cv == CrossValidate(m_config, cvSource)
        total == trainer.total
    IN  /\ fires' = Append(fires, [run |-> run, step |-> Len(steps), kind |-> action.kind, index |-> action.currentIndex, at |-> total, phase |-> phase, result |-> result])
        /\ files' = IF action.kind = "checkpoint"
                    THEN SaveCheckpoint(m_config, files, trainer, mbSource, action.currentIndex)
                    ELSE files
        /\ saves' = IF action.kind = "checkpoint"
                    THEN Append(saves, [file |-> CheckpointFile(m_config, action.currentIndex), index |-> action.currentIndex, total |-> total, cursor |-> mbSource.pos, final |-> FALSE,
                                        calls |-> SaveCheckpointCalls(m_config, mbSource, action.currentIndex)])
                    ELSE saves
        /\ cvSource' = IF action.kind = "crossValidation" THEN cv.source ELSE cvSource
        /\ validations' = IF action.kind = "crossValidation"
                          THEN Append(validations, [index |-> action.currentIndex, at |-> total, before |-> cvSource.pos, averageError |-> cv.averageError, totalNumberOfSamples |-> cv.totalNumberOfSamples, numberOfMinibatches |-> cv.numberOfMinibatches, visited |-> cv.visited, requests |-> cv.requests])
                          ELSE validations

\* Lines 223-235: the restore, and the locals before the main loop.
StartTrain ==
    /\ pc = "start"
    /\ LET restore == m_config.m_restoreFromCheckpointIfExists /\ m_config.m_checkPointFileName # <<>>
       IN  \E restoreFile \in (IF restore THEN RestoreFiles(files, m_config.m_checkPointFileName) ELSE {<<>>}) :
             LET r == RestoreFromCheckpoint(files, restoreFile, trainer, mbSource, session.m_actions)
             IN  /\ trainer' = r.trainer
                 /\ mbSource' = r.source
                 /\ session' = [session EXCEPT !.m_actions = r.actions]
                 /\ restoredNumberOfSamples' = IF restore THEN r.trainer.total ELSE 0
                 /\ restoredFrom' = restoreFile
    /\ shouldTrain' = (m_config.m_maxNumTrainingSamples > 0)
    /\ earlyExit' = FALSE
    /\ pc' = "loop"
    /\ UNCHANGED <<devices, m_config, calls, cvSource, files, minibatch, ai, run, logs>>

\* Lines 236-245: the loop's condition holds, and the minibatch is fetched.
Fetch ==
    /\ pc = "loop"
    /\ shouldTrain
    /\ LET samplesLeft == SamplesLeft(m_config, trainer, earlyExit)
           mbSize == Min(GetMinibatchSize(m_config, trainer), samplesLeft)
       IN  \E n \in Answers(mbSource, mbSize) :
             LET got == GetTrainingMinibatch(session, m_config, trainer, mbSource, samplesLeft, n)
             IN  /\ minibatch' = got.minibatch
                 /\ mbSource' = got.source
                 /\ fetches' = Append(fetches, [request |-> got.request, got |-> got.minibatch, at |-> trainer.total, earlyExit |-> earlyExit])
    /\ pc' = "train"
    /\ UNCHANGED <<devices, m_config, calls, session, trainer, cvSource, files, shouldTrain, earlyExit, restoredNumberOfSamples, ai, run, restoredFrom, steps, fires, validations, saves>>

\* Lines 248-255: the trainer trains on the minibatch.
TrainStep ==
    /\ pc = "train"
    /\ \E o \in TrainMinibatch(trainer, minibatch) :
         /\ trainer' = o.trainer
         /\ shouldTrain' = o.result
         /\ steps' = Append(steps, [samples |-> minibatch, result |-> o.result, before |-> trainer.total, total |-> o.trainer.total, earlyExit |-> earlyExit])
    /\ pc' = IF session.m_actions = <<>> THEN "loop" ELSE "actions"
    /\ ai' = 1
    /\ UNCHANGED <<devices, m_config, calls, session, mbSource, cvSource, files, earlyExit, restoredNumberOfSamples, minibatch, run, restoredFrom, fetches, fires, validations, saves>>

\* Lines 256-268, for the action at position ai.
EvalAction ==
    /\ pc = "actions"
    /\ LET action == session.m_actions[ai]
           e == Evaluate(action, trainer.total)
       IN  /\ session' = [session EXCEPT !.m_actions[ai].currentIndex = e.currentIndex,
                                         !.m_actions[ai].sampleCountWhenLastCalled = e.sampleCountWhenLastCalled]
           /\ IF e.call
              THEN \E shouldContinue \in HandlerResults(action.kind) :
                     /\ Perform(action, "loop", shouldContinue)
                     /\ earlyExit' = EarlyExitAfter(earlyExit, shouldContinue)
                     /\ pc' = NextInLoop(ai, Len(session.m_actions), earlyExit').pc
                     /\ ai' = NextInLoop(ai, Len(session.m_actions), earlyExit').ai
              ELSE /\ UNCHANGED <<files, cvSource, earlyExit, fires, validations, saves>>
                   /\ pc' = NextInLoop(ai, Len(session.m_actions), earlyExit).pc
                   /\ ai' = NextInLoop(ai, Len(session.m_actions), earlyExit).ai
    /\ UNCHANGED <<devices, m_config, calls, trainer, mbSource, shouldTrain, restoredNumberOfSamples, minibatch, run, restoredFrom, fetches, steps>>

\* Line 271: the main loop has ended.
ExitLoop ==
    /\ pc = "loop"
    /\ ~shouldTrain
    /\ pc' = IF restoredNumberOfSamples # trainer.total /\ session.m_actions # <<>> THEN "post" ELSE "final"
    /\ ai' = 1
    /\ UNCHANGED <<devices, m_config, calls, session, trainer, mbSource, cvSource, files, trainLocals, run, restoredFrom, logs>>

\* Lines 274-279, for the action at position ai.
PostAction ==
    /\ pc = "post"
    /\ LET action == session.m_actions[ai]
       IN  IF PendingAtEnd(action, trainer.total)
           THEN \E result \in HandlerResults(action.kind) : Perform(action, "post", result)
           ELSE UNCHANGED <<files, cvSource, fires, validations, saves>>
    /\ pc' = IF ai < Len(session.m_actions) THEN "post" ELSE "final"
    /\ ai' = IF ai < Len(session.m_actions) THEN ai + 1 ELSE 1
    /\ UNCHANGED <<devices, m_config, calls, session, trainer, mbSource, trainLocals, run, restoredFrom, fetches, steps>>

\* The mutant of FinalCheckpointWanted: the plain file is saved whether it
\* exists or not.
FinalCheckpointWantedAlways(c, f) == c.m_withCheckpointing /\ c.m_preserveAllCheckpoints

\* The condition of the final checkpoint.
FinalCheckpointWanted(c, f) ==
    /\ c.m_withCheckpointing
    /\ c.m_preserveAllCheckpoints
    /\ ~fexists(f, c.m_checkPointFileName)

\* Lines 282-288: the final checkpoint, and Train returns.
FinalCheckpoint ==
    /\ pc = "final"
    /\ files' = IF FinalCheckpointWanted(m_config, files)
                THEN SaveFinalCheckpoint(m_config, files, trainer, mbSource)
                ELSE files
    /\ saves' = IF FinalCheckpointWanted(m_config, files)
                THEN Append(saves, [file |-> m_config.m_checkPointFileName, index |-> 0, total |-> trainer.total, cursor |-> mbSource.pos, final |-> TRUE,
                                    calls |-> <<[callee |-> "Trainer::SaveCheckpoint", file |-> m_config.m_checkPointFileName, externalState |-> ExternalState(mbSource)]>>])
                ELSE saves
    /\ pc' = "done"
    /\ UNCHANGED <<devices, m_config, calls, session, trainer, mbSource, cvSource, trainLocals, ai, run, restoredFrom, fetches, steps, fires, validations>>

(***************************************************************************)
(* The configurations, trainers, sources and file systems of the model.    *)
(***************************************************************************)
\* The configured checkpoint path of the training runs.
CheckpointPath == <<"d", "/", "m">>

InputVarToStream == {<<"features", "featureStream">>, <<"labels", "labelStream">>}

\* What the members that SessionConfig's constructor leaves uninitialized may
\* hold.
Indeterminate == {[frequency |-> 0, flag |-> FALSE], [frequency |-> 3, flag |-> TRUE]}

NotCalled == [call |-> FALSE, name |-> <<>>, source |-> NullPtr, schedule |-> ConstantSchedule(1), frequency |-> 0, restore |-> FALSE, preserve |-> FALSE]

CheckpointingArgs(name, frequency, restore, preserve) == [NotCalled EXCEPT !.call = TRUE, !.name = name, !.frequency = frequency, !.restore = restore, !.preserve = preserve]

CrossValidationArgs(source, schedule, frequency) == [NotCalled EXCEPT !.call = TRUE, !.source = source, !.schedule = schedule, !.frequency = frequency]

ProgressPrintingArgs(frequency) == [NotCalled EXCEPT !.call = TRUE, !.frequency = frequency]

\* SessionConfig(...).Checkpointing(...).CrossValidation(...)
\* .ProgressPrinting(...), each builder call made or left out.
Configure(schedule, maxNumTrainingSamples, indet, ck, cv, pr) ==
    LET c0 == SessionConfig("trainingSource", schedule, InputVarToStream, maxNumTrainingSamples, indet).cfg
        c1 == IF ck.call THEN Checkpointing(c0, ck.name, ck.frequency, ck.restore, ck.preserve).cfg ELSE c0
        c2 == IF cv.call THEN CrossValidation(c1, cv.source, cv.schedule, cv.frequency).cfg ELSE c1
    IN  IF pr.call THEN ProgressPrinting(c2, {"writer"}, pr.frequency).cfg ELSE c2

Schedules == {ConstantSchedule(1), ConstantSchedule(MaxMb), Schedule(1, 2, 2)}

CheckpointingChoices ==
    {NotCalled, CheckpointingArgs(<<>>, 0, TRUE, FALSE),
     CheckpointingArgs(CheckpointPath, 0, TRUE, TRUE), CheckpointingArgs(CheckpointPath, 0, FALSE, FALSE)}
    \cup {CheckpointingArgs(CheckpointPath, 2, r, p) : r \in BOOLEAN, p \in BOOLEAN}

CrossValidationChoices ==
    {NotCalled, CrossValidationArgs("validationSource", ConstantSchedule(2), 3), CrossValidationArgs(NullPtr, ConstantSchedule(2), 3)}

ProgressPrintingChoices == {NotCalled, ProgressPrintingArgs(2), ProgressPrintingArgs(1)}

\* The members no builder call sets hold values that would show if read.
Unset == [frequency |-> 3, flag |-> TRUE]

TrainConfigs ==
    {Configure(s, MaxSamples, Unset, ck, cv, pr) :
        s \in Schedules, ck \in CheckpointingChoices,
        cv \in CrossValidationChoices, pr \in ProgressPrintingChoices}

\* The configurations run with a distributed trainer: every action, a
\* schedule that crosses the warm-up.
DistributedConfigs ==
    {Configure(s, MaxSamples, Unset, CheckpointingArgs(CheckpointPath, 2, r, FALSE),
               CrossValidationArgs("validationSource", ConstantSchedule(2), 3), ProgressPrintingArgs(2)) :
        s \in {ConstantSchedule(2), Schedule(1, 2, 2)}, r \in BOOLEAN}

DistributedLearners ==
    {<<DistributedLearner(3, 1, 2), LocalLearner>>,
     <<DistributedLearner(3, 0, 3), DistributedLearner(0, 1, 2)>>}

NewTrainer(learners) == [learners |-> learners, distributed |-> IsDistributed(learners), total |-> 0, idle |-> 0]

\* A trainer that was trained on some samples before the session got it.
UsedTrainer(learners, seen) == [NewTrainer(learners) EXCEPT !.total = seen]

TrainingSources == {[kind |-> "full", pos |-> 0, len |-> 2 * MaxSamples], [kind |-> "short", pos |-> 0, len |-> MaxSamples - 1]}

ValidationData == <<1, 0, 1>>

ValidationSource(data, pos) == [kind |-> "full", pos |-> pos, len |-> Len(data), data |-> data]

NoFiles == [p \in {} |-> 0]

\* A checkpoint a former run left at the configured path.
FormerCheckpoint == TrainerSaveCheckpoint(NoFiles, CheckpointPath, [total |-> 3], [TrainingMinibatchSource |-> 3])

FileSystems == {NoFiles, FormerCheckpoint}

\* A process at position at: the session is constructed from the
\* configuration and the trainer, the sources are new.
Process(at, c, t, src, cv, f, r) ==
    /\ pc = at
    /\ m_config = c
    /\ calls = <<>>
    /\ session = TrainingSession(t.learners, c)
    /\ trainer = t
    /\ mbSource = src
    /\ cvSource = cv
    /\ files = f
    /\ shouldTrain = FALSE
    /\ earlyExit = FALSE
    /\ restoredNumberOfSamples = 0
    /\ minibatch = 0
    /\ ai = 1
    /\ run = r
    /\ restoredFrom = <<>>
    /\ fetches = <<>>
    /\ steps = <<>>
    /\ fires = <<>>
    /\ validations = <<>>
    /\ saves = <<>>
    /\ allDevices = <<CPUDevice>>
    /\ s_defaultDevice = AutoDevice
    /\ s_defaultDeviceFrozen = FALSE

Setup(c, t, src, f) == [config |-> c, trainer |-> t, source |-> src, files |-> f]

\* The configurations run with a trainer that has seen samples before, on a
\* source that has samples or none.
UsedTrainerConfigs ==
    {Configure(s, MaxSamples, Unset, CheckpointingArgs(CheckpointPath, 2, r, FALSE), cv, NotCalled) :
        s \in {ConstantSchedule(1), ConstantSchedule(MaxMb)}, r \in BOOLEAN,
        cv \in {NotCalled, CrossValidationArgs("validationSource", ConstantSchedule(2), 3)}}

UsedTrainerSources == {[kind |-> "full", pos |-> 0, len |-> 2 * MaxSamples], [kind |-> "full", pos |-> 0, len |-> 0]}

Setups ==
    {Setup(c, NewTrainer(<<LocalLearner>>), src, f) : c \in TrainConfigs, src \in TrainingSources, f \in FileSystems}
    \cup {Setup(c, NewTrainer(l), src, f) : c \in DistributedConfigs, l \in DistributedLearners, src \in TrainingSources, f \in FileSystems}
    \cup {Setup(c, UsedTrainer(<<LocalLearner>>, seen), src, f) :
              c \in UsedTrainerConfigs, seen \in {1, 3}, src \in UsedTrainerSources, f \in FileSystems}

Init ==
    \E s \in Setups :
        Process("start", s.config, s.trainer, s.source, ValidationSource(ValidationData, 0), s.files, 1)

TrainNext ==
    \/ StartTrain
    \/ Fetch
    \/ TrainStep
    \/ EvalAction
    \/ ExitLoop
    \/ PostAction
    \/ FinalCheckpoint

Next == TrainNext

Spec == Init /\ [][Next]_vars

(***************************************************************************)
(* The end-to-end scenario: 100 samples in minibatches of 10, a checkpoint *)
(* every 20 samples, no cross validation, no progress, a local trainer, a  *)
(* source that hands out what is asked for, and no checkpoint to restore.  *)
(***************************************************************************)
EndToEndConfigs ==
    {Configure(ConstantSchedule(10), 100, indet, CheckpointingArgs(path, 20, r, p), NotCalled, NotCalled) :
        indet \in Indeterminate, path \in {<<"m">>, CheckpointPath}, r \in BOOLEAN, p \in BOOLEAN}

InitEndToEnd ==
    \E c \in EndToEndConfigs, len \in {100, 250} :
        Process("start", c, NewTrainer(<<LocalLearner>>), [kind |-> "full", pos |-> 0, len |-> len], ValidationSource(ValidationData, 0), NoFiles, 1)

SpecEndToEnd == InitEndToEnd /\ [][Next]_vars

(***************************************************************************)
(* An interrupted run and the run that resumes it: the process is killed   *)
(* (or has returned from Train), and a new process constructs the session  *)
(* from the same configuration over the files the first one left.          *)
(***************************************************************************)
Kill ==
    /\ pc # "start"
    /\ run = 1
    /\ pc' = "start"
    /\ run' = 2
    /\ session' = TrainingSession(trainer.learners, m_config)
    /\ trainer' = NewTrainer(trainer.learners)
    /\ mbSource' = [mbSource EXCEPT !.pos = 0]
    /\ cvSource' = [cvSource EXCEPT !.pos = 0]
    /\ shouldTrain' = FALSE
    /\ earlyExit' = FALSE
    /\ restoredNumberOfSamples' = 0
    /\ minibatch' = 0
    /\ ai' = 1
    /\ restoredFrom' = <<>>
    /\ fetches' = <<>>
    /\ steps' = <<>>
    /\ validations' = <<>>
    /\ saves' = <<>>
    /\ UNCHANGED <<devices, m_config, calls, files, fires>>

ResumeConfigs ==
    {Configure(s, MaxSamples, Unset, CheckpointingArgs(CheckpointPath, 2, TRUE, p), cv, NotCalled) :
        s \in {ConstantSchedule(1), ConstantSchedule(MaxMb)}, p \in BOOLEAN,
        cv \in {NotCalled, CrossValidationArgs("validationSource", ConstantSchedule(2), 3)}}

InitResume ==
    \E c \in ResumeConfigs, src \in TrainingSources :
        Process("start", c, NewTrainer(<<LocalLearner>>), src, ValidationSource(ValidationData, 0), NoFiles, 1)

NextResume == TrainNext \/ Kill

SpecResume == InitResume /\ [][NextResume]_vars

(***************************************************************************)
(* CrossValidate called repeatedly on a session whose validation source    *)
(* holds a few samples (the error of each is 0 or 1) and stands anywhere   *)
(* in them.                                                                *)
(***************************************************************************)
ValidationDataSets == UNION {[1..n -> {0, 1}] : n \in 0..MaxCvLen}

ValidationSchedules == {ConstantSchedule(1), ConstantSchedule(2), Schedule(2, 2, 1), Schedule(1, 1, 3)}

ValidationConfigs ==
    {Configure(ConstantSchedule(1), MaxSamples, Unset, NotCalled, CrossValidationArgs(source, schedule, 3), NotCalled) :
        source \in {"validationSource", NullPtr}, schedule \in ValidationSchedules}

InitCV ==
    \E c \in ValidationConfigs, data \in ValidationDataSets :
        \E pos \in 0..Len(data) :
            Process("validate", c, NewTrainer(<<LocalLearner>>), [kind |-> "full", pos |-> 0, len |-> 0], ValidationSource(data, pos), NoFiles, 1)

\* One call of CrossValidate(currentIndex, computeDevice).
CallCrossValidate ==
    /\ pc = "validate"
    /\ Len(validations) < MaxCalls
    /\ \E result \in HandlerResults("crossValidation") :
           Perform([session.m_actions[1] EXCEPT !.currentIndex = Len(validations)], "call", result)
    /\ UNCHANGED <<devices, pc, m_config, calls, session, trainer, mbSource, trainLocals, ai, run, restoredFrom, fetches, steps>>

NextCV == CallCrossValidate

SpecCV == InitCV /\ [][NextCV]_vars

(***************************************************************************)
(* The builder calls made on a constructed SessionConfig, in any order and *)
(* any number; a call that raises leaves the object as it was at the throw.*)
(***************************************************************************)
BuilderCheckpointingChoices ==
    {CheckpointingArgs(<<>>, 0, TRUE, FALSE), CheckpointingArgs(<<>>, 2, FALSE, FALSE),
     CheckpointingArgs(<<>>, SizeMax, FALSE, FALSE), CheckpointingArgs(<<>>, 0, FALSE, TRUE),
     CheckpointingArgs(CheckpointPath, 2, TRUE, TRUE), CheckpointingArgs(<<"m">>, 3, TRUE, FALSE)}

BuilderCrossValidationChoices ==
    {CrossValidationArgs(NullPtr, ConstantSchedule(2), 3), CrossValidationArgs("validationSource", ConstantSchedule(1), 2)}

BuilderProgressPrintingChoices == ProgressPrintingChoices \ {NotCalled}

InitConfig ==
    \E indet \in Indeterminate :
        Process("configure", SessionConfig("trainingSource", ConstantSchedule(1), InputVarToStream, MaxSamples, indet).cfg,
                NewTrainer(<<LocalLearner>>), [kind |-> "full", pos |-> 0, len |-> 0], ValidationSource(ValidationData, 0), NoFiles, 1)

\* The call of a builder method with its arguments and outcome, recorded.
Called(method, args, outcome) ==
    /\ Len(calls) < MaxCalls
    /\ m_config' = outcome.cfg
    /\ calls' = Append(calls, [method |-> method, args |-> args, err |-> outcome.err, before |-> m_config, after |-> outcome.cfg])
    /\ UNCHANGED <<devices, pc, session, trainer, mbSource, cvSource, files, trainLocals, ai, run, restoredFrom, logs>>

CallCheckpointing ==
    /\ pc = "configure"
    /\ \E a \in BuilderCheckpointingChoices :
           Called("Checkpointing", a, Checkpointing(m_config, a.name, a.frequency, a.restore, a.preserve))

CallCrossValidation ==
    /\ pc = "configure"
    /\ \E a \in BuilderCrossValidationChoices :
           Called("CrossValidation", a, CrossValidation(m_config, a.source, a.schedule, a.frequency))

CallProgressPrinting ==
    /\ pc = "configure"
    /\ \E a \in BuilderProgressPrintingChoices :
           Called("ProgressPrinting", a, ProgressPrinting(m_config, {"writer"}, a.frequency))

NextConfig ==
    \/ CallCheckpointing
    \/ CallCrossValidation
    \/ CallProgressPrinting

SpecConfig == InitConfig /\ [][NextConfig]_vars

(***************************************************************************)
(* Train started with restoreFromCheckpointIfExists over a directory that  *)
(* former runs left: numbered checkpoints, with or without their .ckp      *)
(* sibling, an entry that is not numbered, the plain file or not.  The     *)
(* entries stand beside the configured path, or in the directory "..".     *)
(***************************************************************************)
Suffixes == {<<"0">>, <<"1">>, <<"1", "0">>, <<"X">>}

\* How an entry is there: not, alone, or with its .ckp sibling.
Presence == {"absent", "alone", "paired"}

\* What the file with the given suffix holds (a different count for each).
LeftBy(suffix) ==
    LET total == IF suffix = <<"0">> THEN 1 ELSE IF suffix = <<"1">> THEN 2 ELSE IF suffix = <<"1", "0">> THEN 3 ELSE 4
    IN  [total |-> total, externalState |-> [TrainingMinibatchSource |-> total]]

\* The directory: the entries base \o suffix as present says, and the plain
\* file when exact.
Directory(base, present, plain, exact) ==
    LET entries == {base \o sfx : sfx \in {x \in Suffixes : present[x] # "absent"}}
        siblings == {base \o sfx \o CkpExt : sfx \in {x \in Suffixes : present[x] = "paired"}}
        exacts == IF exact THEN {plain, plain \o CkpExt} ELSE {}
    IN  [path \in entries \cup siblings \cup exacts |->
            IF path \in exacts THEN [total |-> 0, externalState |-> [TrainingMinibatchSource |-> 0]]
            ELSE LET sfx == CHOOSE x \in Suffixes : path = base \o x \/ path = base \o x \o CkpExt
                 IN  LeftBy(sfx)]

\* The configured path, and where the entries are.
Layouts ==
    {[path |-> <<"m">>, base |-> <<"m">>],
     [path |-> CheckpointPath, base |-> CheckpointPath],
     [path |-> <<"m">>, base |-> <<".", ".", "/", "m">>]}

InitRestore ==
    \E layout \in Layouts, present \in [Suffixes -> Presence], exact \in BOOLEAN :
        Process("start",
                Configure(ConstantSchedule(MaxMb), MaxSamples, Unset, CheckpointingArgs(layout.path, 2, TRUE, FALSE), NotCalled, NotCalled),
                NewTrainer(<<LocalLearner>>), [kind |-> "full", pos |-> 0, len |-> 2 * MaxSamples], ValidationSource(ValidationData, 0),
                Directory(layout.base, present, layout.path, exact), 1)

SpecRestore == InitRestore /\ [][Next]_vars

(***************************************************************************)
(* The fetch at the level of streams: what GetNextMinibatch makes of the   *)
(* per-stream result of the data source.                                   *)
(***************************************************************************)
\* The streams a data source may deliver.
Streams == {"featureStream", "labelStream"}

\* The results of MinibatchSource::GetNextMinibatch: a map from some of the
\* streams to their MinibatchData.
StreamResults == UNION {[present -> {[data |-> "value"]}] : present \in SUBSET Streams}

\* std::unordered_map::operator[] on the copy of the result (line 364): the
\* entry of the key, a default-constructed MinibatchData (its data a null
\* ValuePtr) when the key is not there; it never raises.
Subscript(minibatchData, stream) ==
    IF stream \in DOMAIN minibatchData THEN minibatchData[stream] ELSE [data |-> NullPtr]

\* The empty minibatch (minibatch.clear(), line 353).
EmptyMinibatch == [v \in {} |-> NullPtr]

\* TrainingSession::GetNextMinibatch, lines 351-365, on the result the source
\* gives: the minibatch by model input, whether the source was contacted and
\* the error raised (none in every case).
GetNextMinibatchOfStreams(inputVarToStream, mbSize, minibatchData) ==
    IF mbSize = 0
    THEN [minibatch |-> EmptyMinibatch, contacted |-> FALSE, err |-> "none"]
    ELSE IF DOMAIN minibatchData = {}
    THEN [minibatch |-> EmptyMinibatch, contacted |-> TRUE, err |-> "none"]
    ELSE [minibatch |-> [v \in {e[1] : e \in inputVarToStream} |->
                            Subscript(minibatchData, (CHOOSE e \in inputVarToStream : e[1] = v)[2]).data],
          contacted |-> TRUE, err |-> "none"]

InitStreams ==
    /\ \E indet \in Indeterminate :
        m_config = SessionConfig("trainingSource", ConstantSchedule(MaxMb), InputVarToStream, MaxSamples, indet).cfg
    /\ pc = "fetchStreams"
    /\ calls = <<>>
    /\ session = TrainingSession(<<LocalLearner>>, m_config)
    /\ trainer = NewTrainer(<<LocalLearner>>)
    /\ mbSource = [kind |-> "full", pos |-> 0, len |-> MaxSamples]
    /\ cvSource = ValidationSource(ValidationData, 0)
    /\ files = NoFiles
    /\ shouldTrain = TRUE
    /\ earlyExit = FALSE
    /\ restoredNumberOfSamples = 0
    /\ minibatch = EmptyMinibatch
    /\ ai = 1
    /\ run = 1
    /\ restoredFrom = <<>>
    /\ fetches = <<>>
    /\ steps = <<>>
    /\ fires = <<>>
    /\ validations = <<>>
    /\ saves = <<>>
    /\ allDevices = <<CPUDevice>>
    /\ s_defaultDevice = AutoDevice
    /\ s_defaultDeviceFrozen = FALSE

\* Line 245 of Train: the fetch, the source giving some per-stream result.
FetchStreams ==
    /\ pc = "fetchStreams"
    /\ Len(fetches) < MaxCalls
    /\ \E mbSize \in 0..1, minibatchData \in StreamResults :
         LET got == GetNextMinibatchOfStreams(m_config.m_inputVarToStream, mbSize, minibatchData)
         IN  /\ minibatch' = got.minibatch
             /\ fetches' = Append(fetches, [mbSize |-> mbSize, result |-> minibatchData, got |-> got.minibatch,
                                            contacted |-> got.contacted, err |-> got.err])
             /\ pc' = IF got.err = "none" THEN "trainStreams" ELSE "aborted"
    /\ UNCHANGED <<devices, m_config, calls, session, trainer, mbSource, cvSource, files, shouldTrain, earlyExit, restoredNumberOfSamples, ai, run, restoredFrom, steps, fires, validations, saves>>

\* Line 249 of Train: the minibatch is handed to the trainer.
TrainStreams ==
    /\ pc = "trainStreams"
    /\ steps' = Append(steps, [handed |-> minibatch, fetch |-> Len(fetches)])
    /\ pc' = "fetchStreams"
    /\ UNCHANGED <<devices, m_config, calls, session, trainer, mbSource, cvSource, files, shouldTrain, earlyExit, restoredNumberOfSamples, minibatch, ai, run, restoredFrom, fetches, fires, validations, saves>>

NextStreams ==
    \/ FetchStreams
    \/ TrainStreams

SpecStreams == InitStreams /\ [][NextStreams]_vars

(***************************************************************************)
(* The construction of SessionConfig objects from arguments of every kind. *)
(***************************************************************************)
\* The arguments of the constructor.  The schedule is taken by reference to
\* a MinibatchSizeSchedule object, so every call has one.
ConstructorArguments ==
    [source : {NullPtr, "trainingSource"},
     schedule : Schedules,
     mapping : {{}, {<<"features", "featureStream">>}, InputVarToStream},
     max : {0, 1, MaxSamples}]

\* No SessionConfig object has been constructed yet.
InitConstruct ==
    \E indet \in Indeterminate :
        Process("construct", SessionConfig(NullPtr, ConstantSchedule(1), {}, 0, indet).cfg,
                NewTrainer(<<LocalLearner>>), [kind |-> "full", pos |-> 0, len |-> 0], ValidationSource(ValidationData, 0), NoFiles, 1)

\* SessionConfig(trainingSource, minibatchSizeSchedule, inputVarToStream,
\* maxNumTrainingSamples): the object exists when the constructor returns;
\* when it raises, the objects are those there were.  The last call is kept.
Construct ==
    /\ pc \in {"construct", "constructed"}
    /\ \E a \in ConstructorArguments, indet \in Indeterminate :
         LET outcome == SessionConfig(a.source, a.schedule, a.mapping, a.max, indet)
         IN  /\ calls' = <<[method |-> "SessionConfig", args |-> a, err |-> outcome.err, before |-> m_config, after |-> outcome.cfg]>>
             /\ m_config' = IF outcome.err = "none" THEN outcome.cfg ELSE m_config
             /\ pc' = IF outcome.err = "none" THEN "constructed" ELSE pc
    /\ UNCHANGED <<devices, session, trainer, mbSource, cvSource, files, trainLocals, ai, run, restoredFrom, logs>>

NextConstruct == Construct

SpecConstruct == InitConstruct /\ [][NextConstruct]_vars

(***************************************************************************)
(* The selection of the default device, by calls in any order.             *)
(***************************************************************************)
\* The machines: without a GPU, with one, with two; the CPU comes last.
Machines == {<<CPUDevice>>, <<GPUDevice(0), CPUDevice>>, <<GPUDevice(0), GPUDevice(1), CPUDevice>>}

InitDevices ==
    /\ pc = "devices"
    /\ \E indet \in Indeterminate :
        m_config = SessionConfig("trainingSource", ConstantSchedule(1), InputVarToStream, MaxSamples, indet).cfg
    /\ calls = <<>>
    /\ session = TrainingSession(<<LocalLearner>>, m_config)
    /\ trainer = NewTrainer(<<LocalLearner>>)
    /\ mbSource = [kind |-> "full", pos |-> 0, len |-> 0]
    /\ cvSource = ValidationSource(ValidationData, 0)
    /\ files = NoFiles
    /\ shouldTrain = FALSE
    /\ earlyExit = FALSE
    /\ restoredNumberOfSamples = 0
    /\ minibatch = 0
    /\ ai = 1
    /\ run = 1
    /\ restoredFrom = <<>>
    /\ fetches = <<>>
    /\ steps = <<>>
    /\ fires = <<>>
    /\ validations = <<>>
    /\ saves = <<>>
    /\ allDevices \in Machines
    /\ s_defaultDevice = AutoDevice
    /\ s_defaultDeviceFrozen = FALSE

\* DeviceDescriptor::AllDevices(), as a set.
AllDevices == {allDevices[i] : i \in DOMAIN allDevices}

\* A call on DeviceDescriptor with its outcome, recorded.
DeviceCalled(method, device, outcome) ==
    /\ Len(calls) < MaxCalls
    /\ s_defaultDevice' = outcome.selection.device
    /\ s_defaultDeviceFrozen' = outcome.selection.frozen
    /\ calls' = Append(calls, [method |-> method, args |-> device, result |-> outcome.result, err |-> outcome.err,
                               before |-> Selection(s_defaultDevice, s_defaultDeviceFrozen), after |-> outcome.selection])
    /\ UNCHANGED <<pc, m_config, session, trainer, mbSource, cvSource, files, trainLocals, ai, run, restoredFrom, logs, allDevices>>

CallDefaultDevice ==
    /\ pc = "devices"
    /\ DeviceCalled("DefaultDevice", AutoDevice, DefaultDevice(Selection(s_defaultDevice, s_defaultDeviceFrozen)))

CallSetDefaultDevice ==
    /\ pc = "devices"
    /\ \E newDefaultDevice \in AllDevices \cup {AutoDevice} :
           DeviceCalled("SetDefaultDevice", newDefaultDevice,
                        SetDefaultDevice(Selection(s_defaultDevice, s_defaultDeviceFrozen), newDefaultDevice))

CallUseDefaultDevice ==
    /\ pc = "devices"
    /\ \E best \in AllDevices :
           DeviceCalled("UseDefaultDevice", AutoDevice, UseDefaultDevice(Selection(s_defaultDevice, s_defaultDeviceFrozen), best))

NextDevices ==
    \/ CallDefaultDevice
    \/ CallSetDefaultDevice
    \/ CallUseDefaultDevice

SpecDevices == InitDevices /\ [][NextDevices]_vars

(***************************************************************************)
(* Train run to its end: a trainer that returns false on an empty          *)
(* minibatch and counts the samples of any other, every maximum, schedule  *)
(* and starting count, below, at and above the maximum.  Cross validation  *)
(* is run without a source: what matters here is what its handler returns. *)
(***************************************************************************)
\* The maxima of the runs: the smallest, one below the count of the former
\* checkpoint, the largest.
Maxima == {1, 2, MaxSamples}

TerminatingConfigs ==
    {Configure(s, max, Unset, CheckpointingArgs(CheckpointPath, 2, r, FALSE), cv, NotCalled) :
        s \in Schedules, max \in Maxima, r \in BOOLEAN,
        cv \in {NotCalled, CrossValidationArgs(NullPtr, ConstantSchedule(2), 3)}}

\* The trainers: new, or having seen samples, fewer than the maximum, as
\* many, or more.
TerminatingTrainers ==
    {NewTrainer(<<LocalLearner>>)} \cup {UsedTrainer(<<LocalLearner>>, seen) : seen \in {1, MaxSamples, MaxSamples + 1}}

InitTerminate ==
    \E c \in TerminatingConfigs, t \in TerminatingTrainers, src \in TrainingSources, f \in FileSystems :
        Process("start", c, t, src, ValidationSource(ValidationData, 0), f, 1)

\* Train is a sequential program: while it has a step to take it takes one
\* (the collaborators it calls return).
SpecTerminate == InitTerminate /\ [][Next]_vars /\ WF_vars(Next)

(***************************************************************************)
(* Properties.                                                             *)
(***************************************************************************)
\* The calls of the action of the given kind made by this run in the given
\* phase of Train ("loop": the main loop, "post": the catch-up after it).
FiresOf(kind, phase) ==
    SelectSeq(fires, LAMBDA e : e.run = run /\ e.kind = kind /\ e.phase = phase)

\* The sample count Train started from (after the restore).
StartCount == IF steps = <<>> THEN trainer.total ELSE steps[1].before

Range(seq) == {seq[i] : i \in 1..Len(seq)}

\* C1, as claimed: at the end of every iteration of the main loop, every
\* action has been called exactly once for every period completed so far in
\* this run (no period twice, no reached period without a call).
C1_OncePerReachedPeriod ==
    pc = "loop" =>
        \A i \in 1..Len(session.m_actions) :
            LET F == session.m_actions[i].frequency
                f == FiresOf(session.m_actions[i].kind, "loop")
            IN  /\ \A j \in 1..Len(f) : \A k \in (j + 1)..Len(f) : f[j].index # f[k].index
                /\ {f[j].index : j \in 1..Len(f)} = (StartCount \div F)..((trainer.total \div F) - 1)

\* The period index an action holds when iteration j evaluates it: that of
\* the count the iteration before reached, and for the first iteration that
\* of the restored checkpoint's count, or 0 when none was restored.
IndexBefore(j, F) ==
    IF j > 1 THEN steps[j - 1].total \div F
    ELSE IF restoredFrom # <<>> THEN restoredNumberOfSamples \div F
    ELSE 0

\* C1, amended: at the end of every iteration, every action has been called
\* exactly once in each iteration whose step brought count / F to another
\* value than the action's index, with that index (the period that was
\* running) and at the count the step reached, which is at or past the end
\* of that period; no period is called twice; and when no step moved
\* count / F by more than one, every period from the first index on that the
\* count has completed has had its call.
C1_OncePerCrossingStep ==
    pc = "loop" =>
        \A i \in 1..Len(session.m_actions) :
            LET F == session.m_actions[i].frequency
                f == FiresOf(session.m_actions[i].kind, "loop")
                crossing == {j \in 1..Len(steps) : steps[j].total \div F # IndexBefore(j, F)}
            IN  /\ Len(f) = Cardinality(crossing)
                /\ {<<e.step, e.index, e.at>> : e \in Range(f)} = {<<j, IndexBefore(j, F), steps[j].total>> : j \in crossing}
                /\ \A j \in 1..Len(f) : \A k \in (j + 1)..Len(f) : f[j].index < f[k].index
                /\ \A j \in 1..Len(f) : f[j].at >= (f[j].index + 1) * F
                /\ (steps # <<>> /\ \A j \in 1..Len(steps) : (steps[j].total \div F) - IndexBefore(j, F) <= 1)
                       => {f[j].index : j \in 1..Len(f)} = IndexBefore(1, F)..((trainer.total \div F) - 1)

\* C1's case: an action that has been called for two periods, with more
\* iterations than calls, and a step that crossed several multiples.
C1_Witness ==
    /\ pc = "loop"
    /\ \E i \in 1..Len(session.m_actions) :
           /\ Len(FiresOf(session.m_actions[i].kind, "loop")) >= 2
           /\ Len(steps) > Len(FiresOf(session.m_actions[i].kind, "loop")) + 1
    /\ \E i \in 1..Len(session.m_actions) : \E j \in 1..Len(steps) :
           (steps[j].total \div session.m_actions[i].frequency) - (steps[j].before \div session.m_actions[i].frequency) >= 2

\* The sample counts and the period indices of the calls in a sequence.
CountsOf(f) == [j \in 1..Len(f) |-> f[j].at]

IndicesOf(f) == [j \in 1..Len(f) |-> f[j].index]

\* C2, as claimed: with a cap of 100 samples, minibatches of 10 and a
\* checkpoint frequency of 20, a finished Train has made exactly 10
\* fetch/step cycles, 5 checkpoint calls at 20, 40, 60, 80, 100 in the main
\* loop and none after it.
C2_TenCycles ==
    pc = "done" =>
        /\ Len(fetches) = 10
        /\ Len(steps) = 10
        /\ CountsOf(FiresOf("checkpoint", "loop")) = <<20, 40, 60, 80, 100>>
        /\ FiresOf("checkpoint", "post") = <<>>

\* C2, amended: the finished Train has made exactly 11 fetch/step cycles:
\* 10 that ask the source for 10 samples and train on them, and an eleventh
\* with no sample left, which does not contact the source and calls
\* TrainMinibatch on an empty minibatch, whose false result ends the loop;
\* the checkpoint action was called exactly 5 times, for the periods 0..4 at
\* 20, 40, 60, 80, 100, all in the main loop, and never after it.
C2_ElevenCycles ==
    pc = "done" =>
        /\ Len(fetches) = 11
        /\ Len(steps) = 11
        /\ \A j \in 1..10 :
               /\ fetches[j].request.contacted
               /\ fetches[j].request.size = 10
               /\ fetches[j].got = 10
               /\ steps[j] = [samples |-> 10, result |-> TRUE, before |-> 10 * (j - 1), total |-> 10 * j, earlyExit |-> FALSE]
        /\ fetches[11] = [request |-> NoRequest, got |-> 0, at |-> 100, earlyExit |-> FALSE]
        /\ steps[11] = [samples |-> 0, result |-> FALSE, before |-> 100, total |-> 100, earlyExit |-> FALSE]
        /\ CountsOf(FiresOf("checkpoint", "loop")) = <<20, 40, 60, 80, 100>>
        /\ IndicesOf(FiresOf("checkpoint", "loop")) = <<0, 1, 2, 3, 4>>
        /\ FiresOf("checkpoint", "post") = <<>>
        /\ Len(fires) = 5

\* C2's case: the run of the example has finished, its checkpoints taken.
C2_Witness ==
    /\ pc = "done"
    /\ m_config.m_maxNumTrainingSamples = 100
    /\ m_config.m_checkpointFrequencyInSamples = 20
    /\ trainer.total = 100
    /\ Len(saves) >= 5

\* The iterations of the main loop that began with earlyExit set.
AfterExit == {j \in 1..Len(steps) : steps[j].earlyExit}

\* C3, as claimed: once a handler has returned false, the main loop starts
\* no further iteration: no minibatch is fetched with earlyExit set.
C3_NoIterationAfterFalse ==
    \A j \in 1..Len(fetches) : ~fetches[j].earlyExit

\* C3, amended: after a handler has returned false the remaining actions of
\* the iteration are still evaluated (every iteration ends past the last
\* action), but the loop goes on: the iterations begun with earlyExit set ask
\* for no sample, do not contact the source and call TrainMinibatch on an
\* empty minibatch, and the loop ends only when TrainMinibatch returns
\* false: for a trainer that is not distributed, after exactly one such
\* iteration, or after none when TrainMinibatch had already returned false
\* in the iteration of the handler's false.
C3_EmptyIterationAfterFalse ==
    /\ (pc = "loop" /\ steps # <<>>) => ai = Len(session.m_actions) + 1
    /\ earlyExit <=> \E e \in Range(fires) : e.run = run /\ e.phase = "loop" /\ ~e.result
    /\ \A j \in 1..Len(fetches) :
           fetches[j].earlyExit => fetches[j].request = NoRequest /\ fetches[j].got = 0
    /\ \A j \in AfterExit : steps[j].samples = 0
    /\ (pc \in {"post", "final", "done"} /\ steps # <<>>) =>
           /\ ~steps[Len(steps)].result
           /\ \A j \in 1..(Len(steps) - 1) : steps[j].result
    /\ (pc \in {"post", "final", "done"} /\ earlyExit /\ ~trainer.distributed) =>
           LET first == CHOOSE j \in 1..Len(fires) :
                            /\ fires[j].run = run /\ fires[j].phase = "loop" /\ ~fires[j].result
                            /\ \A k \in 1..(j - 1) : ~(fires[k].run = run /\ fires[k].phase = "loop" /\ ~fires[k].result)
           IN  AfterExit = IF steps[fires[first].step].result THEN {fires[first].step + 1} ELSE {}

\* C3's case: a handler returned false, an action after it was called in the
\* same iteration, and the run has ended.
C3_Witness ==
    /\ pc = "done"
    /\ earlyExit
    /\ \E j \in 1..Len(fires) : \E k \in (j + 1)..Len(fires) :
           /\ ~fires[j].result
           /\ fires[j].phase = "loop"
           /\ fires[k].phase = "loop"
           /\ fires[k].step = fires[j].step

\* The frequency of the action of the given kind.
FrequencyOf(kind) ==
    LET i == CHOOSE i \in 1..Len(session.m_actions) : session.m_actions[i].kind = kind
    IN  session.m_actions[i].frequency

\* The resumed run has restored a checkpoint.
Resumed == run = 2 /\ pc # "start" /\ restoredFrom # <<>>

\* What C4 says of the restore itself and of the period that straddles it:
\* right after the restore every action's currentIndex is T / frequency, and
\* once the resumed run has passed the next multiple of an action's
\* frequency, it has called the action for the straddling period T / frequency.
RestoreInStep ==
    Resumed =>
        /\ (pc = "loop" /\ steps = <<>>) =>
               /\ trainer.total = restoredNumberOfSamples
               /\ \A i \in 1..Len(session.m_actions) :
                      session.m_actions[i].currentIndex = restoredNumberOfSamples \div session.m_actions[i].frequency
        /\ pc = "loop" =>
               \A i \in 1..Len(session.m_actions) :
                   LET a == session.m_actions[i]
                   IN  trainer.total \div a.frequency > restoredNumberOfSamples \div a.frequency =>
                           \E e \in Range(FiresOf(a.kind, "loop")) : e.index = restoredNumberOfSamples \div a.frequency

\* The calls of the interrupted run that the restored checkpoint is past.
BeforeCheckpoint == {e \in Range(fires) : e.run = 1 /\ e.at <= restoredNumberOfSamples}

ResumedCalls == {e \in Range(fires) : e.run = 2}

\* C4, as claimed: after the restore every currentIndex is T / frequency, the
\* straddling period is not skipped, and no period an action was called for
\* before the checkpoint is called for again by the resumed run.
C4_NoPeriodTwice ==
    /\ RestoreInStep
    /\ Resumed =>
           \A e1 \in BeforeCheckpoint : \A e2 \in ResumedCalls :
               e1.kind = e2.kind => e1.index # e2.index

\* C4, amended: after the restore every currentIndex is T / frequency, the
\* straddling period is not skipped, and no period an action was called for
\* in the main loop before the checkpoint is called for again; a period is
\* called for twice only when the interrupted run's post-loop catch-up
\* flushed it, unfinished, at the checkpoint's count T (T not a multiple of
\* the frequency): the resumed run calls it again with the index T / frequency.
C4_NoLoopPeriodTwice ==
    /\ RestoreInStep
    /\ Resumed =>
           \A e1 \in BeforeCheckpoint : \A e2 \in ResumedCalls :
               e1.kind = e2.kind =>
                   /\ e2.index >= restoredNumberOfSamples \div FrequencyOf(e2.kind)
                   /\ e1.phase = "loop" => e1.index < e2.index
                   /\ e1.index = e2.index =>
                          /\ e1.phase = "post"
                          /\ e1.at = restoredNumberOfSamples
                          /\ restoredNumberOfSamples % FrequencyOf(e1.kind) # 0
                          /\ e1.index = restoredNumberOfSamples \div FrequencyOf(e1.kind)

\* C4's case: a run resumed from a checkpoint taken inside a period, that
\* has called an action the interrupted run had called in its main loop.
C4_Witness ==
    /\ Resumed
    /\ pc = "done"
    /\ \E e1 \in BeforeCheckpoint : \E e2 \in ResumedCalls :
           /\ e1.kind = e2.kind
           /\ e1.phase = "loop"
           /\ e2.phase = "loop"
           /\ restoredNumberOfSamples % FrequencyOf(e1.kind) # 0
           /\ e2.index = restoredNumberOfSamples \div FrequencyOf(e1.kind)

\* The calls of this run in the given phase, each as <<kind, index>>.
CallsIn(phase) ==
    LET f == SelectSeq(fires, LAMBDA e : e.run = run /\ e.phase = phase)
    IN  [j \in 1..Len(f) |-> <<f[j].kind, f[j].index>>]

\* The actions with an unfinished last period that has not been flushed, in
\* their order, each as <<kind, currentIndex>>.
Unflushed ==
    LET pending == SelectSeq(session.m_actions,
                             LAMBDA a : trainer.total % a.frequency # 0 /\ a.sampleCountWhenLastCalled # trainer.total)
    IN  [j \in 1..Len(pending) |-> <<pending[j].kind, pending[j].currentIndex>>]

\* What C6 says of the catch-up itself: once it is over, it has called, once
\* each and in the actions' order, exactly the actions whose frequency does
\* not divide the trainer's sample count and whose sampleCountWhenLastCalled
\* differs from it, each with its currentIndex, provided the count differs
\* from the one recorded after the restore step, and no action otherwise; a
\* false result of these calls sets no early exit.
CatchUp ==
    /\ pc \in {"final", "done"} =>
           CallsIn("post") = IF trainer.total # restoredNumberOfSamples THEN Unflushed ELSE <<>>
    /\ pc \notin {"post", "final", "done"} => CallsIn("post") = <<>>
    /\ earlyExit <=> \E e \in Range(fires) : e.run = run /\ e.phase = "loop" /\ e.result = FALSE

\* No step of this run has changed the trainer's sample count.
NothingProcessed == \A j \in 1..Len(steps) : steps[j].total = steps[j].before

\* C6, as claimed: the catch-up is as above, and a run that processed no
\* sample calls no action after the loop.
C6_NoCatchUpWithoutSamples ==
    /\ CatchUp
    /\ (pc \in {"final", "done"} /\ NothingProcessed) => CallsIn("post") = <<>>

\* C6, amended: the catch-up is as above; a run that processed no sample
\* calls no action after the loop when Train did the restore step or the
\* trainer's count is 0, since the recorded count is then the trainer's; with
\* no restore step the recorded count is 0, and a trainer that had seen
\* samples before has its unflushed actions called though nothing was
\* processed.
C6_PostLoopCatchUp ==
    /\ CatchUp
    /\ (pc \in {"final", "done"} /\ NothingProcessed) =>
           CallsIn("post") =
               IF (m_config.m_restoreFromCheckpointIfExists /\ m_config.m_checkPointFileName # <<>>) \/ trainer.total = 0
               THEN <<>>
               ELSE Unflushed

\* C6's case: a finished run whose catch-up called one action, which
\* returned false, and left out another; no handler had returned false in
\* the main loop.
C6_Witness ==
    /\ pc = "done"
    /\ ~earlyExit
    /\ ~NothingProcessed
    /\ Len(CallsIn("post")) >= 1
    /\ Len(CallsIn("post")) < Len(session.m_actions)
    /\ \E e \in Range(fires) : e.phase = "post" /\ ~e.result

\* The final checkpoints this run has saved.
FinalSaves == SelectSeq(saves, LAMBDA e : e.final)

\* C7: the last step of Train saves a checkpoint to the plain path, once,
\* when checkpointing is configured with preserve-all-checkpoints and no
\* file is at the plain path, and saves nothing otherwise; so a run that
\* has returned with preserve-all-checkpoints set has a file at the plain
\* path, and no run saves two final checkpoints.
C7_FinalCheckpoint ==
    /\ [](Len(FinalSaves) <= 1)
    /\ []((pc = "done" /\ m_config.m_withCheckpointing /\ m_config.m_preserveAllCheckpoints)
              => m_config.m_checkPointFileName \in DOMAIN files)
    /\ []((pc # "done") => FinalSaves = <<>>)
    /\ [][pc = "final" =>
            LET plain == m_config.m_checkPointFileName
                wanted == /\ m_config.m_withCheckpointing
                          /\ m_config.m_preserveAllCheckpoints
                          /\ plain \notin DOMAIN files
            IN  IF wanted
                THEN /\ plain \in DOMAIN files'
                     /\ files'[plain].total = trainer.total
                     /\ \A path \in DOMAIN files : path \in DOMAIN files' /\ files'[path] = files[path]
                     /\ Len(saves') = Len(saves) + 1
                     /\ saves'[Len(saves')].final
                     /\ saves'[Len(saves')].file = plain
                ELSE files' = files /\ saves' = saves]_vars

\* C7's case: a run with preserve-all-checkpoints that saved numbered
\* checkpoints and then the final one at the plain path.
C7_Witness ==
    /\ pc = "done"
    /\ m_config.m_withCheckpointing
    /\ m_config.m_preserveAllCheckpoints
    /\ Len(FinalSaves) = 1
    /\ Len(saves) >= 3

\* A request for samples that overrides the sharding: one worker, rank 0.
Unsharded(request) == request.numberOfWorkers = 1 /\ request.workerRank = 0

\* C8: every request made of the training source while the trainer's sample
\* count is below the session's parallelization start is for one worker of
\* rank 0, every request made at or after it is for the session's rank and
\* number of workers, and every request made of the cross-validation source
\* is for one worker of rank 0.
C8_WarmUpSharding ==
    /\ \A j \in 1..Len(fetches) :
           fetches[j].request.contacted =>
               IF fetches[j].at < session.m_parallelAfterSamples
               THEN Unsharded(fetches[j].request)
               ELSE /\ fetches[j].request.numberOfWorkers = session.m_numberOfWorkers
                    /\ fetches[j].request.workerRank = session.m_workerRank
    /\ \A j \in 1..Len(validations) : \A request \in validations[j].requests :
           request.contacted => Unsharded(request)

\* C8's case: a session of rank 1 among 2 workers that fetched before and
\* after the parallelization start, and cross-validated after it.
C8_Witness ==
    /\ session.m_numberOfWorkers = 2
    /\ session.m_workerRank = 1
    /\ \E j \in 1..Len(fetches) : fetches[j].request.contacted /\ fetches[j].at < session.m_parallelAfterSamples
    /\ \E j \in 1..Len(fetches) : fetches[j].request.contacted /\ fetches[j].request.numberOfWorkers = 2
    /\ \E j \in 1..Len(validations) :
           /\ validations[j].at >= session.m_parallelAfterSamples
           /\ validations[j].numberOfMinibatches >= 2
           /\ validations[j].requests # {}

\* Two calls of CrossValidate reported the same.
SameReport(v, w) ==
    /\ v.visited = w.visited
    /\ v.totalNumberOfSamples = w.totalNumberOfSamples
    /\ v.numberOfMinibatches = w.numberOfMinibatches
    /\ v.averageError = w.averageError

\* C9: after every call of CrossValidate the validation source's cursor is
\* where it was before the call, and any two calls in a row visited the same
\* minibatches and reported the same sample count, minibatch count and mean
\* error.
C9_CursorRestored ==
    /\ \A j \in 1..Len(validations) : validations[j].before = cvSource.pos
    /\ \A j \in 1..Len(validations) : \A k \in 1..Len(validations) :
           SameReport(validations[j], validations[k])
    /\ \A j \in 1..Len(validations) :
           m_config.m_crossValidationSource # NullPtr =>
               validations[j].totalNumberOfSamples = cvSource.len - cvSource.pos

\* C9's case: two calls on a source standing past its start, each visiting
\* several minibatches with errors in them.
C9_Witness ==
    /\ pc = "validate"
    /\ Len(validations) >= 2
    /\ cvSource.pos > 0
    /\ validations[2].numberOfMinibatches >= 2
    /\ validations[2].averageError[1] > 0

\* The calls of the method made before call j that returned.
Succeeded(method, j) == {i \in 1..(j - 1) : calls[i].method = method /\ calls[i].err = "none"}

\* The members each builder method stores.
SubConfiguration(method, c) ==
    IF method = "Checkpointing"
    THEN <<c.m_withCheckpointing, c.m_checkPointFileName, c.m_checkpointFrequencyInSamples, c.m_restoreFromCheckpointIfExists, c.m_preserveAllCheckpoints>>
    ELSE IF method = "CrossValidation"
    THEN <<c.m_withCrossValidation, c.m_crossValidationSource, c.m_crossValidationSchedule, c.m_crossValidationFrequencyInSamples>>
    ELSE <<c.m_withProgressPrinting, c.m_progressWriters, c.m_progressFrequencyInSamples>>

Methods == {"Checkpointing", "CrossValidation", "ProgressPrinting"}

\* C10: each builder method returns at most once on one SessionConfig; every
\* call of a method made after a call of it that returned raises the
\* already-specified error and leaves the whole object as it was; a call
\* changes nothing of what the other two methods store, and whether it raises
\* the already-specified error depends on no call of the other two.
C10_OncePerMethod ==
    /\ \A method \in Methods : Cardinality(Succeeded(method, Len(calls) + 1)) <= 1
    /\ \A j \in 1..Len(calls) :
           /\ (Succeeded(calls[j].method, j) # {}) <=> (calls[j].err = "RuntimeError")
           /\ calls[j].err = "RuntimeError" => calls[j].after = calls[j].before
           /\ \A other \in Methods \ {calls[j].method} :
                  SubConfiguration(other, calls[j].after) = SubConfiguration(other, calls[j].before)
    /\ \A j \in 1..Len(calls) : \A i \in Succeeded(calls[j].method, j) :
           SubConfiguration(calls[j].method, calls[j].after) = SubConfiguration(calls[i].method, calls[i].after)

\* C10's case: Checkpointing returned, CrossValidation returned, and a second
\* Checkpointing with other arguments was refused.
C10_Witness ==
    /\ Len(calls) >= 3
    /\ calls[1].method = "Checkpointing" /\ calls[1].err = "none"
    /\ calls[2].method = "CrossValidation" /\ calls[2].err = "none"
    /\ calls[3].method = "Checkpointing" /\ calls[3].err = "RuntimeError"
    /\ calls[3].args # calls[1].args

\* Beside the configured path stand the numbered checkpoints 0, 1 and 10,
\* each with its .ckp sibling, and the plain file is not there.
NumberedCheckpointsBeside(plain) ==
    /\ plain \notin DOMAIN files
    /\ \A sfx \in {<<"0">>, <<"1">>, <<"1", "0">>} :
           /\ plain \o sfx \in DOMAIN files
           /\ plain \o sfx \o CkpExt \in DOMAIN files

\* C5, as claimed and as the comment above RestoreFromCheckpoint() says: with
\* no file at the configured path P and P0, P0.ckp, P1, P1.ckp, P10, P10.ckp
\* in its directory, Train started with restoreFromCheckpointIfExists has
\* restored from P10, and the trainer stands at the count P10 holds.
C5_RestoresLargestNumber ==
    (pc = "loop" /\ steps = <<>> /\ NumberedCheckpointsBeside(m_config.m_checkPointFileName)) =>
        /\ restoredFrom = m_config.m_checkPointFileName \o <<"1", "0">>
        /\ trainer.total = files[m_config.m_checkPointFileName \o <<"1", "0">>].total

\* C6's other case: a trainer that had seen samples, no restore step, a run
\* that processed nothing, and an action called after the loop.
C6_UsedTrainerWitness ==
    /\ pc = "done"
    /\ NothingProcessed
    /\ trainer.total > 0
    /\ ~m_config.m_restoreFromCheckpointIfExists
    /\ CallsIn("post") # <<>>

\* The calls of Checkpointing made with an empty file name.
EmptyNameCalls == {j \in 1..Len(calls) : calls[j].method = "Checkpointing" /\ calls[j].args.name = <<>>}

\* C11, as claimed: every call of Checkpointing with an empty file name and
\* a nonzero frequency or preserve-all-checkpoints raises invalid-argument,
\* and one that returns has stored frequency 0 and preserve-all false.
C11_EmptyNameRefused ==
    \A j \in EmptyNameCalls :
        /\ (calls[j].args.frequency # 0 \/ calls[j].args.preserve) => calls[j].err = "InvalidArgument"
        /\ calls[j].err = "none" =>
               /\ calls[j].after.m_checkpointFrequencyInSamples = 0
               /\ ~calls[j].after.m_preserveAllCheckpoints

\* C11, amended: on a SessionConfig on which Checkpointing has not returned
\* yet, a call with an empty file name raises invalid-argument exactly when
\* the frequency is neither 0 nor the largest size_t, or preserve-all is set
\* (checkpointing stays unconfigured); otherwise it returns and has stored
\* the empty name, frequency 0 (also for the largest size_t) and preserve-all
\* false.  On a SessionConfig on which Checkpointing has returned, the call
\* raises the already-specified error instead.
C11_EmptyNameRefusedButSizeMax ==
    \A j \in EmptyNameCalls :
        LET a == calls[j].args
            refused == (a.frequency # 0 /\ a.frequency # SizeMax) \/ a.preserve
        IN  IF calls[j].before.m_withCheckpointing
            THEN calls[j].err = "RuntimeError" /\ calls[j].after = calls[j].before
            ELSE IF refused
            THEN /\ calls[j].err = "InvalidArgument"
                 /\ ~calls[j].after.m_withCheckpointing
            ELSE /\ calls[j].err = "none"
                 /\ calls[j].after.m_withCheckpointing
                 /\ calls[j].after.m_checkPointFileName = <<>>
                 /\ calls[j].after.m_checkpointFrequencyInSamples = 0
                 /\ ~calls[j].after.m_preserveAllCheckpoints
                 /\ calls[j].after.m_restoreFromCheckpointIfExists = a.restore

\* C11's case: a call with an empty name and frequency 2 was refused, then
\* one with an empty name and the largest size_t returned.
C11_Witness ==
    /\ Len(calls) >= 2
    /\ calls[1].method = "Checkpointing" /\ calls[1].args.name = <<>> /\ calls[1].args.frequency = 2
    /\ calls[1].err = "InvalidArgument"
    /\ calls[2].method = "Checkpointing" /\ calls[2].args.name = <<>> /\ calls[2].args.frequency = SizeMax
    /\ calls[2].err = "none"
    /\ m_config.m_checkpointFrequencyInSamples = 0

\* The model inputs whose stream the result of the given fetch lacks.
Lacking(fetch) ==
    {e[1] : e \in {m \in m_config.m_inputVarToStream : m[2] \notin DOMAIN fetch.result}}

\* C12, as claimed: a fetch whose non-empty result lacks the stream of a
\* model input ends in an error, and no minibatch handed to the trainer
\* holds a null value.
C12_MissingStreamIsError ==
    /\ \A j \in 1..Len(fetches) :
           (fetches[j].contacted /\ DOMAIN fetches[j].result # {} /\ Lacking(fetches[j]) # {}) => fetches[j].err # "none"
    /\ \A j \in 1..Len(steps) : \A v \in DOMAIN steps[j].handed : steps[j].handed[v] # NullPtr

\* The state C12's counterexample ends in: the source delivered the feature
\* stream only, no error was raised, and the trainer was handed a minibatch
\* whose labels are null.
C12_NullHanded ==
    /\ steps # <<>>
    /\ LET step == steps[Len(steps)]
       IN  /\ DOMAIN fetches[step.fetch].result = {"featureStream"}
           /\ fetches[step.fetch].err = "none"
           /\ DOMAIN step.handed = {"features", "labels"}
           /\ step.handed["labels"] = NullPtr
           /\ step.handed["features"] = "value"

\* The checkpoint the handler saved in this step, if the step called it.
SavedNow == saves' # saves /\ ~saves'[Len(saves')].final

\* C13: SaveCheckpoint(periodIndex), called with the period index of the
\* action, writes to the configured path followed by the decimal digits of
\* the index (no other character, no leading zero) when
\* preserve-all-checkpoints is set, and to the configured path itself
\* otherwise, replacing what was there and leaving every other file alone
\* (but the companion the trainer writes); it calls OnCheckpointStart(index),
\* then the trainer's save, then OnCheckpointEnd(index), and the saved state
\* holds the cursor of the training source under TrainingMinibatchSource.
C13_SaveCheckpoint ==
    [][SavedNow =>
        LET e == saves'[Len(saves')]
            name == m_config.m_checkPointFileName
            suffix == SubSeq(e.file, Len(name) + 1, Len(e.file))
        IN  /\ e.index = fires'[Len(fires')].index
            /\ Len(e.file) >= Len(name) /\ SubSeq(e.file, 1, Len(name)) = name
            /\ IF m_config.m_preserveAllCheckpoints
               THEN isNumber(suffix) /\ strtol(suffix) = e.index /\ (Len(suffix) = 1 \/ suffix[1] # "0")
               ELSE suffix = <<>>
            /\ Len(e.calls) = 3
            /\ e.calls[1].callee = "OnCheckpointStart" /\ e.calls[1].index = e.index
            /\ e.calls[2].callee = "Trainer::SaveCheckpoint" /\ e.calls[2].file = e.file
            /\ e.calls[2].externalState[s_trainingMinibatchSource] = mbSource.pos
            /\ e.calls[3].callee = "OnCheckpointEnd" /\ e.calls[3].index = e.index
            /\ e.file \in DOMAIN files'
            /\ files'[e.file].total = trainer.total
            /\ files'[e.file].externalState[s_trainingMinibatchSource] = mbSource.pos
            /\ \A f \in DOMAIN files : f \in DOMAIN files' /\ (f \notin {e.file, e.file \o CkpExt} => files'[f] = files[f])
    ]_vars

\* C13's cases: with preserve-all, the checkpoints of periods 0 and 1 lie
\* side by side under the path followed by "0" and by "1", the second
\* holding a cursor past the first; without it, a second save has replaced
\* the first at the configured path.
C13_Witness ==
    /\ Len(saves) >= 2
    /\ ~saves[1].final /\ ~saves[2].final
    /\ saves[1].cursor < saves[2].cursor
    /\ IF m_config.m_preserveAllCheckpoints
       THEN /\ saves[1].file = m_config.m_checkPointFileName \o <<"0">>
            /\ saves[2].file = m_config.m_checkPointFileName \o <<"1">>
            /\ files[saves[1].file].externalState[s_trainingMinibatchSource] = saves[1].cursor
            /\ files[saves[2].file].externalState[s_trainingMinibatchSource] = saves[2].cursor
       ELSE /\ saves[1].file = m_config.m_checkPointFileName
            /\ saves[2].file = m_config.m_checkPointFileName
            /\ files[saves[2].file].externalState[s_trainingMinibatchSource] = saves[2].cursor

\* C13's case with every checkpoint preserved.
C13_WitnessPreserved == C13_Witness /\ m_config.m_preserveAllCheckpoints

\* The entries the scan of RestoreFromCheckpoint() accepts for the
\* configured path, in the given files.
Accepted(f) ==
    LET split == SplitPath(m_config.m_checkPointFileName)
    IN  Candidates(f, split.parent, split.fileName)

\* The step of Train that runs RestoreFromCheckpoint().
Restoring ==
    /\ pc = "start" /\ pc' = "loop"
    /\ m_config.m_restoreFromCheckpointIfExists /\ m_config.m_checkPointFileName # <<>>

\* C14: RestoreFromCheckpoint() restores from the file at the configured
\* path whenever it exists, whatever numbered entries there are, and from a
\* numbered entry only when it does not; when neither that file nor an entry
\* the scan accepts exists, nothing is restored: the trainer, the training
\* source and every action (currentIndex, sampleCountWhenLastCalled) are as
\* they were.
C14_ExactFileFirst ==
    [][Restoring =>
        LET checkpoint == m_config.m_checkPointFileName
        IN  /\ checkpoint \in DOMAIN files =>
                /\ restoredFrom' = checkpoint
                /\ trainer'.total = files[checkpoint].total
                /\ mbSource'.pos = files[checkpoint].externalState[s_trainingMinibatchSource]
            /\ (restoredFrom' # <<>> /\ restoredFrom' # checkpoint) =>
                /\ checkpoint \notin DOMAIN files
                /\ \E f \in Accepted(files) : restoredFrom' = SplitPath(checkpoint).parent \o <<"/">> \o f
            /\ (checkpoint \notin DOMAIN files /\ Accepted(files) = {}) =>
                /\ restoredFrom' = <<>>
                /\ trainer' = trainer /\ mbSource' = mbSource /\ session' = session
            /\ files' = files
    ]_vars

\* C14's first case: the file at the configured path and numbered entries
\* the scan would accept are both there, one of them holding another count,
\* and the restore took the file at the configured path.
C14_Witness ==
    /\ pc = "loop" /\ steps = <<>>
    /\ m_config.m_checkPointFileName \in DOMAIN files
    /\ \E f \in Accepted(files) :
           files[SplitPath(m_config.m_checkPointFileName).parent \o <<"/">> \o f].total # files[m_config.m_checkPointFileName].total
    /\ restoredFrom = m_config.m_checkPointFileName
    /\ trainer.total = files[m_config.m_checkPointFileName].total

\* C14's second case: neither is there, though the directory is not empty,
\* and nothing was restored.
C14_WitnessNothing ==
    /\ pc = "loop" /\ steps = <<>>
    /\ m_config.m_checkPointFileName \notin DOMAIN files
    /\ Accepted(files) = {}
    /\ DOMAIN files # {}
    /\ restoredFrom = <<>>

\* The arguments break one of the requirements on the required fields.
Violating(a) == a.source = NullPtr \/ a.max = 0 \/ a.mapping = {}

\* C15: the constructor raises invalid-argument exactly when the training
\* source is null, the mapping is empty or the maximum number of training
\* samples is 0 (the schedule is an object in every call), and every
\* SessionConfig object there is has a training source, a schedule, a
\* mapping that is not empty and a maximum above 0.
C15_RequiredFields ==
    /\ \A j \in 1..Len(calls) :
           /\ calls[j].err = (IF Violating(calls[j].args) THEN "InvalidArgument" ELSE "none")
           /\ calls[j].err = "none" =>
                  /\ calls[j].after.m_mbSource = calls[j].args.source
                  /\ calls[j].after.m_mbSizeSchedule = calls[j].args.schedule
                  /\ calls[j].after.m_inputVarToStream = calls[j].args.mapping
                  /\ calls[j].after.m_maxNumTrainingSamples = calls[j].args.max
    /\ pc = "constructed" =>
           /\ m_config.m_mbSource # NullPtr
           /\ m_config.m_mbSizeSchedule \in Schedules
           /\ m_config.m_inputVarToStream # {}
           /\ m_config.m_maxNumTrainingSamples > 0

\* C15's case: after an object was constructed, a call whose only fault is
\* the empty mapping raised, and the object there was is as it was.
C15_Witness ==
    /\ pc = "constructed"
    /\ calls # <<>>
    /\ calls[1].args.source # NullPtr /\ calls[1].args.max > 0 /\ calls[1].args.mapping = {}
    /\ calls[1].err = "InvalidArgument"
    /\ m_config = calls[1].before

\* The calls of UseDefaultDevice() before the j-th call.
UsesBefore(j) == {i \in 1..(j - 1) : calls[i].method = "UseDefaultDevice"}

\* The device the first UseDefaultDevice() before the j-th call returned.
DeviceInUse(j) == calls[CHOOSE i \in UsesBefore(j) : \A k \in UsesBefore(j) : i <= k].result

\* The device last given to a SetDefaultDevice() that returned, before the
\* j-th call; the placeholder when there is none.
LastGiven(j) ==
    LET given == {i \in 1..(j - 1) : calls[i].method = "SetDefaultDevice" /\ calls[i].err = "none"}
    IN  IF given = {} THEN AutoDevice
        ELSE calls[CHOOSE i \in given : \A k \in given : k <= i].args

\* C16: the placeholder is none of AllDevices(); before the first
\* UseDefaultDevice(), DefaultDevice() returns the placeholder or the device
\* last given to SetDefaultDevice(); UseDefaultDevice() returns one of
\* AllDevices(), and from the first one on DefaultDevice() and
\* UseDefaultDevice() return the device it returned, and SetDefaultDevice()
\* with another device raises and leaves the default device as it was.
C16_FrozenByFirstUse ==
    /\ AutoDevice \notin AllDevices
    /\ \A j \in 1..Len(calls) :
        LET used == UsesBefore(j) # {}
        IN  /\ calls[j].method = "DefaultDevice" =>
                  /\ calls[j].result = (IF used THEN DeviceInUse(j) ELSE LastGiven(j))
                  /\ calls[j].after = calls[j].before
            /\ calls[j].method = "UseDefaultDevice" =>
                  /\ calls[j].result \in AllDevices
                  /\ calls[j].result = (IF used THEN DeviceInUse(j) ELSE IF LastGiven(j) = AutoDevice THEN calls[j].result ELSE LastGiven(j))
                  /\ calls[j].after = Selection(calls[j].result, TRUE)
            /\ (calls[j].method = "SetDefaultDevice" /\ used /\ calls[j].args # DeviceInUse(j)) =>
                  /\ calls[j].err # "none"
                  /\ calls[j].after = calls[j].before
    /\ (\E i \in 1..Len(calls) : calls[i].method = "UseDefaultDevice") => s_defaultDevice = DeviceInUse(Len(calls) + 1)

\* C16's case: the default device was used, SetDefaultDevice() with another
\* device raised, and DefaultDevice() then returned the device in use.
C16_Witness ==
    /\ Len(calls) >= 3
    /\ calls[1].method = "UseDefaultDevice"
    /\ calls[2].method = "SetDefaultDevice" /\ calls[2].args \in AllDevices /\ calls[2].args # calls[1].result
    /\ calls[2].err = "RuntimeError"
    /\ calls[3].method = "DefaultDevice" /\ calls[3].result = calls[1].result

\* C17: in the loop over the actions of an iteration of Train, with
\* index = totalNumberOfSamples / frequency: an action whose currentIndex
\* is index is not called and keeps its fields; any other is called once,
\* with its currentIndex as it was, however far index is from it, and then
\* has currentIndex = index and sampleCountWhenLastCalled =
\* totalNumberOfSamples, whatever the handler returned.  No other action
\* changes in that step (a step of the running process).
C17_EvaluationRule ==
    [][(pc = "actions" /\ run' = run) =>
        LET before == session.m_actions[ai]
            after == session'.m_actions[ai]
            index == trainer.total \div before.frequency
        IN  /\ Len(session'.m_actions) = Len(session.m_actions)
            /\ \A i \in 1..Len(session.m_actions) : i # ai => session'.m_actions[i] = session.m_actions[i]
            /\ after.kind = before.kind /\ after.frequency = before.frequency
            /\ IF index = before.currentIndex
               THEN /\ fires' = fires
                    /\ after = before
                    /\ earlyExit' = earlyExit
               ELSE /\ Len(fires') = Len(fires) + 1
                    /\ SubSeq(fires', 1, Len(fires)) = fires
                    /\ fires'[Len(fires')].kind = before.kind
                    /\ fires'[Len(fires')].index = before.currentIndex
                    /\ fires'[Len(fires')].at = trainer.total
                    /\ after.currentIndex = index
                    /\ after.sampleCountWhenLastCalled = trainer.total
                    /\ earlyExit' = (earlyExit \/ ~fires'[Len(fires')].result)
    ]_vars

\* C17's case: the handler returned false in a step that crossed more than
\* one boundary; it was called once, with the index before the step, and the
\* action stands at the new index and at the count of that step.
C17_Witness ==
    /\ fires # <<>>
    /\ LET e == fires[Len(fires)]
       IN  /\ e.phase = "loop" /\ e.run = run
           /\ ~e.result
           /\ \E i \in 1..Len(session.m_actions) :
                /\ session.m_actions[i].kind = e.kind
                /\ session.m_actions[i].currentIndex >= e.index + 2
                /\ session.m_actions[i].currentIndex = e.at \div session.m_actions[i].frequency
                /\ session.m_actions[i].sampleCountWhenLastCalled = e.at
           /\ Len(SelectSeq(fires, LAMBDA f : f.run = run /\ f.step = e.step /\ f.kind = e.kind)) = 1

\* C17's other case: an action whose index had not moved was passed over
\* after an earlier call had set it.
C17_WitnessNotCalled ==
    /\ pc = "actions"
    /\ session.m_actions[ai].sampleCountWhenLastCalled > 0
    /\ trainer.total > session.m_actions[ai].sampleCountWhenLastCalled
    /\ trainer.total \div session.m_actions[ai].frequency = session.m_actions[ai].currentIndex

\* C18: every training fetch asks for min(the scheduled size at the
\* trainer's sample count, samplesLeft) samples, samplesLeft being 0 when
\* the early exit is set or the count has reached maxNumTrainingSamples and
\* maxNumTrainingSamples minus the count otherwise (so never below 0, never
\* more than the maximum); with a size of 0 the source is not contacted, its
\* cursor stays, and the trainer is given an empty minibatch.
C18_FetchSize ==
    /\ \A j \in 1..Len(fetches) :
        LET f == fetches[j]
            samplesLeft == IF f.earlyExit \/ f.at >= m_config.m_maxNumTrainingSamples THEN 0
                           ELSE m_config.m_maxNumTrainingSamples - f.at
            scheduled == IF f.at < m_config.m_mbSizeSchedule.switchAt
                         THEN m_config.m_mbSizeSchedule.first ELSE m_config.m_mbSizeSchedule.rest
            size == IF scheduled < samplesLeft THEN scheduled ELSE samplesLeft
        IN  /\ samplesLeft >= 0 /\ samplesLeft <= m_config.m_maxNumTrainingSamples
            /\ f.request.size = size
            /\ f.request.contacted = (size # 0)
            /\ size = 0 => f.got = 0
            /\ f.got <= size
            /\ j <= Len(steps) => steps[j].samples = f.got
    /\ pc = "train" => minibatch = fetches[Len(fetches)].got

\* C18's case of a size of 0: after a fetch of the scheduled size, a fetch
\* made with the early exit set, below the maximum, did not contact the
\* source and gave the trainer an empty minibatch.
C18_Witness ==
    /\ Len(fetches) >= 2 /\ Len(steps) = Len(fetches)
    /\ fetches[1].request.contacted
    /\ fetches[1].request.size = ScheduleAt(m_config.m_mbSizeSchedule, fetches[1].at)
    /\ LET f == fetches[Len(fetches)]
       IN  /\ f.earlyExit /\ f.at < m_config.m_maxNumTrainingSamples
           /\ ~f.request.contacted /\ f.got = 0
           /\ steps[Len(steps)].samples = 0

\* C18's case of a fetch cut down to the samples left, fewer than the
\* scheduled size.
C18_WitnessCut ==
    \E j \in 1..Len(fetches) :
        /\ fetches[j].request.contacted
        /\ fetches[j].request.size = m_config.m_maxNumTrainingSamples - fetches[j].at
        /\ fetches[j].request.size < ScheduleAt(m_config.m_mbSizeSchedule, fetches[j].at)

\* C18's case of a count past the maximum: the fetch asked for nothing.
C18_WitnessPastMaximum ==
    /\ fetches # <<>>
    /\ fetches[Len(fetches)].at > m_config.m_maxNumTrainingSamples
    /\ ~fetches[Len(fetches)].earlyExit
    /\ ~fetches[Len(fetches)].request.contacted

\* The place of an action in the fixed order.
Place(kind) == IF kind = "checkpoint" THEN 1 ELSE IF kind = "crossValidation" THEN 2 ELSE 3

\* The kinds of action the configuration asks for.
Wanted ==
    {k \in {"checkpoint", "crossValidation", "progress"} :
        \/ k = "checkpoint" /\ m_config.m_withCheckpointing /\ m_config.m_checkpointFrequencyInSamples # 0
        \/ k = "crossValidation" /\ m_config.m_withCrossValidation /\ m_config.m_crossValidationFrequencyInSamples # 0
        \/ k = "progress" /\ m_config.m_withProgressPrinting /\ m_config.m_progressFrequencyInSamples # 0}

\* C19: from construction on, the list of actions holds one action for
\* each sub-config that was set with a frequency other than 0, and no
\* other, with that frequency, in the order checkpoint, cross validation,
\* progress; and the calls made in one iteration of Train, as those made
\* after the loop, are made in that order, at most one for each action.
C19_FixedOrder ==
    /\ {session.m_actions[i].kind : i \in 1..Len(session.m_actions)} = Wanted
    /\ \A i, j \in 1..Len(session.m_actions) : i < j => Place(session.m_actions[i].kind) < Place(session.m_actions[j].kind)
    /\ \A i \in 1..Len(session.m_actions) :
          session.m_actions[i].frequency =
              (IF session.m_actions[i].kind = "checkpoint" THEN m_config.m_checkpointFrequencyInSamples
               ELSE IF session.m_actions[i].kind = "crossValidation" THEN m_config.m_crossValidationFrequencyInSamples
               ELSE m_config.m_progressFrequencyInSamples)
    /\ \A j, k \in 1..Len(fires) :
          (j < k /\ fires[j].run = fires[k].run /\ fires[j].step = fires[k].step /\ fires[j].phase = fires[k].phase)
              => Place(fires[j].kind) < Place(fires[k].kind)
    /\ \A j, k \in 1..Len(fires) :
          (j < k /\ fires[j].run = fires[k].run) =>
              /\ fires[j].step <= fires[k].step
              /\ fires[j].phase = "post" => fires[k].phase = "post"

\* C19's case: in one iteration the checkpoint was saved, then cross
\* validation ran, then progress was reported; and after the loop again all
\* three were called in that order.
C19_Witness ==
    /\ \E j \in 1..Len(fires) :
         /\ j + 2 <= Len(fires)
         /\ fires[j].phase = "loop" /\ fires[j + 1].phase = "loop" /\ fires[j + 2].phase = "loop"
         /\ fires[j].step = fires[j + 1].step /\ fires[j].step = fires[j + 2].step
         /\ fires[j].kind = "checkpoint" /\ fires[j + 1].kind = "crossValidation" /\ fires[j + 2].kind = "progress"
         /\ Len(saves) >= 1 /\ Len(validations) >= 1
    /\ Len(fires) >= 6
    /\ LET n == Len(fires)
       IN  /\ fires[n - 2].phase = "post" /\ fires[n - 1].phase = "post" /\ fires[n].phase = "post"
           /\ fires[n - 2].kind = "checkpoint" /\ fires[n - 1].kind = "crossValidation" /\ fires[n].kind = "progress"

\* Train has evaluated the actions for the count the trainer stands at:
\* a checkpoint was restored, or an iteration has ended.
Evaluated == (pc = "loop" /\ restoredFrom # <<>>) \/ (pc \in {"loop", "post", "final", "done"} /\ steps # <<>>)

\* The point of the program is one the bookkeeping is claimed at: the
\* session is constructed, a restore is done, or an iteration has ended.
AtRest == pc \in {"start", "loop", "post", "final", "done"}

\* C20: at construction, after a restore and at the end of every iteration
\* of Train, every action has currentIndex = sampleCountWhenLastCalled /
\* frequency and sampleCountWhenLastCalled <= the trainer's sample count;
\* after a restore and at the end of every iteration it also has
\* currentIndex = the trainer's sample count / frequency.
C20_Bookkeeping ==
    AtRest =>
        \A i \in 1..Len(session.m_actions) :
            LET action == session.m_actions[i]
            IN  /\ action.frequency > 0
                /\ action.currentIndex = action.sampleCountWhenLastCalled \div action.frequency
                /\ action.sampleCountWhenLastCalled <= trainer.total
                /\ Evaluated => action.currentIndex = trainer.total \div action.frequency

\* C20's case: a checkpoint holding a count that is no multiple of the
\* frequency was restored, and an iteration that called the action has
\* ended since; the action stands at the index of the trainer's count.
C20_Witness ==
    /\ pc = "loop" /\ restoredFrom # <<>> /\ steps # <<>>
    /\ \E i \in 1..Len(session.m_actions) :
         LET action == session.m_actions[i]
         IN  /\ steps[1].before % action.frequency # 0
             /\ action.sampleCountWhenLastCalled > steps[1].before
             /\ action.currentIndex = trainer.total \div action.frequency
             /\ action.currentIndex > 0

\* C20's case right after the restore: the count of the last call is the
\* boundary below the restored count.
C20_WitnessRestored ==
    /\ pc = "loop" /\ restoredFrom # <<>> /\ steps = <<>>
    /\ \E i \in 1..Len(session.m_actions) :
         /\ session.m_actions[i].sampleCountWhenLastCalled < trainer.total
         /\ session.m_actions[i].sampleCountWhenLastCalled > 0

\* C20's case of a trainer that had seen samples and no restore: at the
\* start of the loop the actions stand at 0, below the trainer's index.
C20_WitnessUsedTrainer ==
    /\ pc = "loop" /\ restoredFrom = <<>> /\ steps = <<>>
    /\ \E i \in 1..Len(session.m_actions) :
         /\ session.m_actions[i].currentIndex = 0
         /\ trainer.total \div session.m_actions[i].frequency > 0

\* What C21 assumes of the collaborators, of the run so far: the source
\* never gave more than was asked for, the trainer's count grew by just the
\* samples of each minibatch, and Train started at or below the maximum.
WithinBudgetAssumed ==
    /\ \A j \in 1..Len(fetches) : fetches[j].got <= fetches[j].request.size
    /\ \A j \in 1..Len(steps) : steps[j].total = steps[j].before + steps[j].samples
    /\ StartCount <= m_config.m_maxNumTrainingSamples

\* C21: under these assumptions the trainer's sample count is at most
\* maxNumTrainingSamples in every state of Train, and a fetch made at a
\* count that has reached the maximum asks the training source for nothing.
C21_SampleBudget ==
    WithinBudgetAssumed =>
        /\ trainer.total <= m_config.m_maxNumTrainingSamples
        /\ \A j \in 1..Len(steps) : steps[j].total <= m_config.m_maxNumTrainingSamples
        /\ \A j \in 1..Len(fetches) :
              /\ fetches[j].at + fetches[j].request.size <= m_config.m_maxNumTrainingSamples
              /\ fetches[j].at >= m_config.m_maxNumTrainingSamples =>
                    ~fetches[j].request.contacted /\ fetches[j].got = 0

\* C21's case: a run from below the maximum whose last fetch but one was
\* cut down to the samples left and brought the count to the maximum, and
\* whose last fetch, at the maximum, did not contact the source.
C21_Witness ==
    /\ WithinBudgetAssumed
    /\ Len(fetches) >= 2 /\ Len(steps) = Len(fetches)
    /\ StartCount < m_config.m_maxNumTrainingSamples
    /\ LET n == Len(fetches)
       IN  /\ fetches[n - 1].request.size < ScheduleAt(m_config.m_mbSizeSchedule, fetches[n - 1].at)
           /\ fetches[n - 1].got = fetches[n - 1].request.size
           /\ fetches[n].at = m_config.m_maxNumTrainingSamples
           /\ ~fetches[n].earlyExit
           /\ ~fetches[n].request.contacted
    /\ trainer.total = m_config.m_maxNumTrainingSamples

\* Train started (after the restore) at or above the maximum.
StartedAtMaximum == pc # "start" /\ StartCount >= m_config.m_maxNumTrainingSamples

\* What C22 assumes of the trainer, of the run so far: false on an empty
\* minibatch, and a count that grows by at least 1 on any other.
TrainerAssumed ==
    \A j \in 1..Len(steps) :
        IF steps[j].samples = 0 THEN ~steps[j].result ELSE steps[j].total >= steps[j].before + 1

\* C22: with such a trainer, Train leaves the main loop and returns, for
\* every maximum above 0, every schedule and every starting count; from a
\* starting count at or above the maximum it calls TrainMinibatch exactly
\* once, with an empty minibatch that the source was not asked for.
C22_Termination ==
    /\ []TrainerAssumed => <>(pc = "done")
    /\ [](StartedAtMaximum =>
            /\ Len(steps) <= 1
            /\ \A j \in 1..Len(steps) : steps[j].samples = 0 /\ ~fetches[j].request.contacted
            /\ pc \in {"post", "final", "done"} => Len(steps) = 1)

\* C22's case of a starting count above the maximum: Train restored a
\* checkpoint holding more than the maximum and has returned after one call
\* of TrainMinibatch, with an empty minibatch.
C22_Witness ==
    /\ pc = "done"
    /\ restoredFrom # <<>>
    /\ StartCount > m_config.m_maxNumTrainingSamples
    /\ Len(steps) = 1 /\ steps[1].samples = 0

\* C22's case of a run from below the maximum: Train has returned after
\* several iterations, the count at the maximum.
C22_WitnessLongRun ==
    /\ pc = "done"
    /\ Len(steps) >= 3
    /\ StartCount < m_config.m_maxNumTrainingSamples
    /\ trainer.total = m_config.m_maxNumTrainingSamples

\* A handler returns false in this step of the main loop.
ReturnsFalseNow ==
    /\ Len(fires') = Len(fires) + 1
    /\ fires'[Len(fires')].phase = "loop"
    /\ ~fires'[Len(fires')].result

\* C23: within one call of Train, the early exit is set by a handler
\* returning false in the main loop and never reset, whatever the handlers
\* called after it return; while it is set, every fetch asks for no sample
\* and does not contact the training source, whose cursor stays where it
\* was, and every TrainMinibatch call is given an empty minibatch.
C23_StickyEarlyExit ==
    [][run' = run =>
        /\ earlyExit => earlyExit'
        /\ ReturnsFalseNow => earlyExit'
        /\ earlyExit => mbSource' = mbSource
        /\ (earlyExit /\ Len(fetches') > Len(fetches)) =>
              /\ fetches'[Len(fetches')].request = NoRequest
              /\ fetches'[Len(fetches')].got = 0
              /\ minibatch' = 0
        /\ (earlyExit /\ Len(steps') > Len(steps)) =>
              /\ minibatch = 0
              /\ steps'[Len(steps')].samples = 0
    ]_vars

\* C23's case: cross validation returned false, the action after it in that
\* iteration returned true, and in the iteration after that the source was
\* not contacted and TrainMinibatch was called with an empty minibatch; the
\* early exit is still set.
C23_Witness ==
    /\ earlyExit
    /\ \E j \in 1..Len(fires) :
         /\ j < Len(fires)
         /\ fires[j].run = run /\ fires[j].phase = "loop" /\ ~fires[j].result
         /\ fires[j + 1].phase = "loop" /\ fires[j + 1].step = fires[j].step /\ fires[j + 1].result
         /\ Len(steps) > fires[j].step
         /\ steps[fires[j].step].samples > 0
         /\ steps[fires[j].step].total < m_config.m_maxNumTrainingSamples
    /\ Len(fetches) = Len(steps)
    /\ fetches[Len(fetches)].earlyExit /\ ~fetches[Len(fetches)].request.contacted
    /\ steps[Len(steps)].samples = 0

====
